---- MODULE Spec2Model ----
(***************************************************************************)
(* RedisTableAdapter (custom-redis-adapter/src/RedisTableAdapter.ts):      *)
(* a table layer over a key-value store.  The store is modelled by its     *)
(* keys for one table: the schema set, the id counter, the row hashes, the *)
(* membership set and the field-value index sets.  Every awaited store     *)
(* command of a handler is one step of the caller that runs the handler;   *)
(* WATCH/EXEC/UNWATCH act on the caller's store connection.                *)
(***************************************************************************)
EXTENDS Integers, Sequences, FiniteSets, TLC

\* ------------------------------------------------------------------ bounds
MaxId == 2          \* the id counter is capped here (guard of InsIncr)
MaxTime == 1        \* Date.now() ranges over 0..MaxTime
MaxOps == 3         \* calls started in a sequential run
MaxOpsConc == 3     \* calls started in a concurrent run
MaxZOps == 4        \* sorted-set calls started in a run

\* ------------------------------------------------------- program constants
maxRetries == 5
\* calls in a run of concurrent updates: enough for one caller to have every
\* attempt aborted by a commit of another call
UpdOps == maxRetries + 1

\* ------------------------------------------------------------------ inputs
Callers == {1, 2}
Conns == {1, 2}
Fields == {"a", "b"}
Vals == {"", "v", "w"}
SysFields == {"_created_at", "_updated_at"}
FieldOrder == <<"a", "b", "_created_at", "_updated_at">>
Ids == {ToString(i) : i \in 1..MaxId}
SeqVals == {"", "v"}
Records == UNION {[S -> SeqVals] : S \in SUBSET Fields}
SchemaChoices == {{}, {"a"}, {"a", "b"}}
ConcRows == [{"a"} -> {"v", "w"}]
ConcUpdates == [{"a"} -> {"v", "w"}] \cup [{"b"} -> {"v"}]

EmptyHash == [k \in {} |-> ""]
\* the options of getRowsBySortedField, each of them optional
NoOptions ==
  [order |-> "", limit |-> [found |-> FALSE, value |-> 0],
   offset |-> [found |-> FALSE, value |-> 0],
   minScore |-> [found |-> FALSE, value |-> [kind |-> "num", n |-> 0]],
   maxScore |-> [found |-> FALSE, value |-> [kind |-> "num", n |-> 0]]]
\* (seq is history: the calls still allowed when a session read or create began)
NoOp == [kind |-> "none", id |-> "", rec |-> EmptyHash, fields |-> {}, ttl |-> 0,
         options |-> NoOptions, items |-> <<>>, userId |-> "", seq |-> 0]
\* (liveAtRead is history: the page members whose row was there at the index read;
\* committed is history: the call's EXEC replied with results)
NoLoc == [attempt |-> 0, data |-> EmptyHash, pipe |-> <<>>, rowId |-> "", floor |-> 0,
          userId |-> "", rowIds |-> {}, page |-> <<>>, at |-> 0, out |-> <<>>,
          liveAtRead |-> {}, committed |-> FALSE]
SessIds == {"s1"}
Ttls == {1, 2}
\* the subjects sessions are created for
Subjects == {"u1", ""}
NoSession == [userId |-> "", expiresAt |-> 0]
\* history of a session key: never written, set by SETEX, or removed by DEL
NoLog == [state |-> "none", subject |-> "", setAt |-> 0, ttl |-> 0]
LogSet(subject, at, ttl) == [state |-> "set", subject |-> subject, setAt |-> at, ttl |-> ttl]
LogDeleted == [state |-> "deleted", subject |-> "", setAt |-> 0, ttl |-> 0]
\* sorted-set members, in lexicographic order
MemberOrder == <<"m1", "m2", "m3">>
Members == {MemberOrder[i] : i \in 1..Len(MemberOrder)}
AddScores == {1, 5}
Increments == {3, -4}
NoScores == [m \in {} |-> 0]
\* rank arguments, some of them outside a set of three members
RankStarts == {0, 1, -2, -4}
RankStops == {0, 1, -1, 3}
\* score bounds of a query, and its paging: limit and offset both, none, or
\* limit alone
ScoreBound(n) == [kind |-> "num", n |-> n]
QueryMins == {[kind |-> "-inf", n |-> 0], ScoreBound(1), ScoreBound(5)}
QueryMaxs == {[kind |-> "+inf", n |-> 0], ScoreBound(1), ScoreBound(5)}
Undefined == [found |-> FALSE, value |-> 0]
Defined(n) == [found |-> TRUE, value |-> n]
Pagings ==
  {[limit |-> Undefined, offset |-> Undefined],
   [limit |-> Defined(2), offset |-> Defined(0)],
   [limit |-> Defined(2), offset |-> Defined(2)],
   [limit |-> Defined(1), offset |-> Defined(1)],
   [limit |-> Defined(0), offset |-> Defined(0)],
   [limit |-> Defined(1), offset |-> Undefined]}
\* the calls of getRowsBySortedField that are tried
SortedQueries ==
  {NoOptions,
   [NoOptions EXCEPT !.order = "desc", !.limit = [found |-> TRUE, value |-> 1],
                     !.offset = [found |-> TRUE, value |-> 1]],
   [NoOptions EXCEPT !.maxScore = [found |-> TRUE, value |-> [kind |-> "num", n |-> 5]]]}
\* the id/score lists createSortedIndex is called with
IndexItems ==
  {<<[id |-> "1", score |-> 5]>>,
   <<[id |-> "1", score |-> 1], [id |-> "2", score |-> 1]>>}
NoCall == [kind |-> "none", member |-> "", arg |-> 0, result |-> 0]

VARIABLES
  schema,     \* {table}:schema, a set of field names ({} when the key is absent)
  nextId,     \* {table}:next_id (0 when the key is absent)
  rows,       \* {table}:{id} hashes, id -> hash (empty hash: key absent)
  rowsSet,    \* {table}:rows, the membership set
  index,      \* {table}:index:{field}:{value} sets
  watching,   \* per connection: the keys WATCHed
  dirty,      \* per connection: a watched key was touched since WATCH
  conn,       \* the connection (adapter instance) each caller uses
  active,     \* the callers that issue calls
  pc,         \* per caller: position in its handler
  op,         \* per caller: the call it runs (or ran last) and its arguments
  loc,        \* per caller: the handler's local variables
  ret,        \* per caller: result of its last completed call
  now,        \* Date.now()
  budget,     \* calls that may still be started
  stale,      \* history: the row a caller watched was written by another caller since
  pre,        \* history: the store when the last call of a sequential run started
  retLog,     \* history: <<"ins", id>> when insert returns id, <<"del", id>>
              \* when a delete of id commits, <<"new", "0">> when the counter
              \* key is deleted or reset, in order
  sessions,   \* session:{id} keys, id -> [userId, expiresAt] (NoSession: key absent)
  sessLog,    \* history, per session id: the last SETEX or DEL that took effect
  zset,       \* one sorted-set key: member -> score, for the members present
  zlast,      \* the last sorted-set call, with its arguments and its result
  zbase,      \* history, per member present: the score of its last add (0 when
              \* an increment created the member)
  zsum,       \* history, per member present: the sum of the increments since
  tsorted     \* {table}:sorted:{field}, a sorted set: row id -> score

storeVars == <<schema, nextId, rows, rowsSet, index>>
connVars == <<watching, dirty>>
\* the keys that are not part of a table
sortedVars == <<zset, zlast, zbase, zsum, tsorted>>
otherKeys == <<sessions, sessLog, sortedVars>>
vars == <<schema, nextId, rows, rowsSet, index, watching, dirty, conn, active,
          pc, op, loc, ret, now, budget, stale, pre, retLog, sessions, sessLog,
          zset, zlast, zbase, zsum, tsorted>>

Store == [schema |-> schema, nextId |-> nextId, rows |-> rows,
          rowsSet |-> rowsSet, index |-> index]

\* --------------------------------------------------------------- key names
RowKey(id) == <<"row", id>>
SessionKey(sessionId) == <<"session", sessionId>>
IndexKey(field, value) == <<field, value>>
\* the names of the keys, as the store sees them
TableName == "t"
RowKeyName(id) == TableName \o ":" \o id
IndexKeyName(field, value) == TableName \o ":index:" \o field \o ":" \o value
SortedIndexKeyUnderIndex(field) == IndexKeyName(field, "v")
SortedIndexKey(field) == TableName \o ":sorted:" \o field
\* the field of the table-bound sorted index, and the key of the standalone
\* sorted set
SortedField == "a"
StandaloneKey == "leaderboard"

\* ------------------------------------------------------------ pure helpers
\* Object spread / HMSET: the fields of u written over those of h.
Hmset(h, u) ==
  [k \in DOMAIN h \cup DOMAIN u |-> IF k \in DOMAIN u THEN u[k] ELSE h[k]]

\* Object.entries(h): the keys of h in insertion order.
Entries(h) ==
  LET In(f) == f \in DOMAIN h IN SelectSeq(FieldOrder, In)

TimeStr(t) == ToString(t)

ValidateRowNoExtra(schemaFields, row) ==
  IF schemaFields \ DOMAIN row # {} THEN "err_missing_field" ELSE "ok"

\* insert's schema check (missing fields are reported before extra ones).
ValidateRow(schemaFields, row) ==
  IF schemaFields \ DOMAIN row # {} THEN "err_missing_field"
  ELSE IF DOMAIN row \ schemaFields # {} THEN "err_extra_field"
  ELSE "ok"

IncrStuck(n) == IF n = 0 THEN 1 ELSE n

\* INCR of the id counter.
Incr(n) == n + 1

RowWithCreatedOnly(row, timestamp) ==
  [k \in DOMAIN row \cup {"_created_at"} |-> IF k = "_created_at" THEN timestamp ELSE row[k]]

\* { ...row, _created_at: timestamp, _updated_at: timestamp }
RowWithTimestamp(row, timestamp) ==
  Hmset(row, [k \in SysFields |-> timestamp])

\* insert's index pipeline: one SADD per entry of the row.
InsertIndexCmds(row, rowId) ==
  LET e == Entries(row) IN
  [i \in 1..Len(e) |->
     [cmd |-> "sadd", field |-> e[i], value |-> row[e[i]], id |-> rowId]]

\* One SADD / SREM on an index set.
ApplyCmd(idx, c) ==
  IF c.cmd = "sadd"
  THEN [idx EXCEPT ![IndexKey(c.field, c.value)] = @ \cup {c.id}]
  ELSE [idx EXCEPT ![IndexKey(c.field, c.value)] = @ \ {c.id}]

\* A write to a key marks every connection that watches it.
Touch(key) == [k \in DOMAIN dirty |-> dirty[k] \/ key \in watching[k]]

InWindow(d) == pc[d] \in {"upd_exists", "upd_hgetall", "upd_exec", "del_hgetall", "del_exec"}

\* history: callers other than c that watched row id and have not yet committed
StaleAfterWrite(c, id) ==
  [d \in DOMAIN stale |-> stale[d] \/ (d # c /\ InWindow(d) /\ op[d].id = id)]

Sequential == Cardinality(active) = 1

MaxOf(S) == IF S = {} THEN 0 ELSE CHOOSE x \in S : \A y \in S : y <= x
IdNum(s) == CHOOSE i \in 0..(MaxId + 1) : ToString(i) = s
\* history: the largest id returned or deleted so far
Floor == MaxOf({IdNum(retLog[i][2]) : i \in 1..Len(retLog)})

\* Date.now(): the clock never runs backwards; time passes between reads.
ReadClock == now' \in now..MaxTime

\* A call starts: the caller is idle and the run's budget allows one more call.
CanStart(c) == c \in active /\ pc[c] = "idle" /\ budget > 0

Begin(c, o) ==
  /\ op' = [op EXCEPT ![c] = o]
  /\ budget' = budget - 1
  /\ pre' = IF Sequential THEN Store ELSE pre

\* A call returns r.
Return(c, r) ==
  /\ pc' = [pc EXCEPT ![c] = "idle"]
  /\ ret' = [ret EXCEPT ![c] = r]

\* ------------------------------------------------------------- createTable
CtExistsNoCheck(c, fields) ==
  /\ CanStart(c)
  /\ Begin(c, [NoOp EXCEPT !.kind = "createTable", !.fields = fields])
  /\ IF fields = {} THEN Return(c, "err_empty_schema")
     ELSE /\ pc' = [pc EXCEPT ![c] = "ct_sadd"]
          /\ ret' = [ret EXCEPT ![c] = "none"]
  /\ loc' = [loc EXCEPT ![c] = NoLoc]
  /\ UNCHANGED <<storeVars, connVars, conn, active, otherKeys, now, stale, retLog>>

CtExists(c, fields) ==
  /\ CanStart(c)
  /\ Begin(c, [NoOp EXCEPT !.kind = "createTable", !.fields = fields])
  /\ IF schema # {} THEN Return(c, "err_schema_exists")
     ELSE IF fields = {} THEN Return(c, "err_empty_schema")
     ELSE /\ pc' = [pc EXCEPT ![c] = "ct_sadd"]
          /\ ret' = [ret EXCEPT ![c] = "none"]
  /\ loc' = [loc EXCEPT ![c] = NoLoc]
  /\ UNCHANGED <<storeVars, connVars, conn, active, otherKeys, now, stale, retLog>>

CtSadd(c) ==
  /\ pc[c] = "ct_sadd"
  /\ schema' = schema \cup op[c].fields
  /\ Return(c, "ok")
  /\ UNCHANGED <<nextId, rows, rowsSet, index, connVars, conn, active, otherKeys, op, loc,
                 now, budget, stale, pre, retLog>>

\* --------------------------------------------------------------- dropTable
\* the DELs dropTable queues for one row: the index key of every entry of
\* rowData, then the row key
DropRowCmds(rowData, rowId) ==
  LET e == Entries(rowData) IN
  [i \in 1..(Len(e) + 1) |->
     IF i <= Len(e)
     THEN [cmd |-> "del_index", field |-> e[i], value |-> rowData[e[i]], id |-> rowId]
     ELSE [cmd |-> "del_row", field |-> "", value |-> "", id |-> rowId]]

\* the DELs of the table metadata
DropMetaCmds ==
  << [cmd |-> "del_schema", field |-> "", value |-> "", id |-> ""],
     [cmd |-> "del_rows", field |-> "", value |-> "", id |-> ""],
     [cmd |-> "del_next_id", field |-> "", value |-> "", id |-> ""] >>

\* the key a DEL of dropTable's pipeline names
DropKeyName(d) ==
  CASE d.cmd = "del_index" -> IndexKeyName(d.field, d.value)
    [] d.cmd = "del_row" -> RowKeyName(d.id)
    [] d.cmd = "del_schema" -> TableName \o ":schema"
    [] d.cmd = "del_rows" -> TableName \o ":rows"
    [] OTHER -> TableName \o ":next_id"

\* DEL removes whatever the key holds: a sorted set goes when the key is its own
DelSortedSets(name) ==
  /\ tsorted' = IF name = SortedIndexKey(SortedField) THEN NoScores ELSE tsorted
  /\ zset' = IF name = StandaloneKey THEN NoScores ELSE zset
  /\ zbase' = IF name = StandaloneKey THEN NoScores ELSE zbase
  /\ zsum' = IF name = StandaloneKey THEN NoScores ELSE zsum
  /\ UNCHANGED zlast

\* smembers(rowsSetKey)
DtSmembers(c) ==
  /\ CanStart(c)
  /\ Begin(c, [NoOp EXCEPT !.kind = "dropTable"])
  /\ loc' = [loc EXCEPT ![c] = [NoLoc EXCEPT !.rowIds = rowsSet,
                                             !.pipe = IF rowsSet = {} THEN DropMetaCmds ELSE <<>>]]
  /\ pc' = [pc EXCEPT ![c] = IF rowsSet = {} THEN "dt_pipe" ELSE "dt_hgetall"]
  /\ ret' = [ret EXCEPT ![c] = "none"]
  /\ UNCHANGED <<storeVars, connVars, conn, active, otherKeys, now, stale, retLog>>

\* one round of the loop over rowIds: hgetall(rowKey), and the DELs queued
DtHgetall(c) ==
  /\ pc[c] = "dt_hgetall"
  /\ \E rowId \in loc[c].rowIds :
       LET rest == loc[c].rowIds \ {rowId}
           queued == loc[c].pipe \o DropRowCmds(rows[rowId], rowId)
       IN /\ loc' = [loc EXCEPT ![c].rowIds = rest,
                                ![c].pipe = IF rest = {} THEN queued \o DropMetaCmds ELSE queued]
          /\ pc' = [pc EXCEPT ![c] = IF rest = {} THEN "dt_pipe" ELSE "dt_hgetall"]
  /\ UNCHANGED <<storeVars, connVars, conn, active, otherKeys, op, ret, now, budget,
                 stale, pre, retLog>>

\* pipeline.exec(): the queued DELs, one at a time
DtPipe(c) ==
  /\ pc[c] = "dt_pipe"
  /\ LET d == Head(loc[c].pipe) IN
     /\ index' = IF d.cmd = "del_index" /\ IndexKey(d.field, d.value) \in DOMAIN index
                 THEN [index EXCEPT ![IndexKey(d.field, d.value)] = {}] ELSE index
     /\ rows' = IF d.cmd = "del_row" THEN [rows EXCEPT ![d.id] = EmptyHash] ELSE rows
     /\ dirty' = IF d.cmd = "del_row" /\ DOMAIN rows[d.id] # {} THEN Touch(RowKey(d.id))
                 ELSE dirty
     /\ stale' = IF d.cmd = "del_row" /\ DOMAIN rows[d.id] # {} THEN StaleAfterWrite(c, d.id)
                 ELSE stale
     /\ schema' = IF d.cmd = "del_schema" THEN {} ELSE schema
     /\ rowsSet' = IF d.cmd = "del_rows" THEN {} ELSE rowsSet
     /\ nextId' = IF d.cmd = "del_next_id" THEN 0 ELSE nextId
     /\ DelSortedSets(DropKeyName(d))
     /\ retLog' = IF d.cmd = "del_next_id" THEN Append(retLog, <<"new", "0">>) ELSE retLog
  /\ loc' = [loc EXCEPT ![c].pipe = Tail(@)]
  /\ IF Len(loc[c].pipe) = 1 THEN Return(c, "ok") ELSE UNCHANGED <<pc, ret>>
  /\ UNCHANGED <<watching, conn, active, sessions, sessLog, op, now, budget, pre>>

\* -------------------------------------------------------------- initNextId
SetKeepsCounter(old) == old

\* SET {table}:next_id '0': the counter restarts, whatever it was
SetCounter(old) == 0

InitNextId(c) ==
  /\ CanStart(c)
  /\ Begin(c, [NoOp EXCEPT !.kind = "initNextId"])
  /\ nextId' = SetCounter(nextId)
  /\ retLog' = Append(retLog, <<"new", "0">>)
  /\ Return(c, "ok")
  /\ loc' = [loc EXCEPT ![c] = NoLoc]
  /\ UNCHANGED <<schema, rows, rowsSet, index, connVars, conn, active, otherKeys, now, stale>>

\* ------------------------------------------------------------------ insert
InsExists(c, row) ==
  /\ CanStart(c)
  /\ Begin(c, [NoOp EXCEPT !.kind = "insert", !.rec = row])
  /\ IF schema = {} THEN Return(c, "err_no_schema")
     ELSE /\ pc' = [pc EXCEPT ![c] = "ins_smembers"]
          /\ ret' = [ret EXCEPT ![c] = "none"]
  /\ loc' = [loc EXCEPT ![c] = [NoLoc EXCEPT !.floor = Floor]]
  /\ UNCHANGED <<storeVars, connVars, conn, active, otherKeys, now, stale, retLog>>

InsSmembers(c) ==
  /\ pc[c] = "ins_smembers"
  /\ LET v == ValidateRow(schema, op[c].rec) IN
     IF v # "ok" THEN Return(c, v)
     ELSE /\ pc' = [pc EXCEPT ![c] = "ins_incr"]
          /\ UNCHANGED ret
  /\ UNCHANGED <<storeVars, connVars, conn, active, otherKeys, op, loc, now, budget, stale,
                 pre, retLog>>

InsIncr(c) ==
  /\ pc[c] = "ins_incr"
  /\ nextId < MaxId
  /\ nextId' = Incr(nextId)
  /\ loc' = [loc EXCEPT ![c].rowId = ToString(nextId')]
  /\ pc' = [pc EXCEPT ![c] = "ins_hmset"]
  /\ UNCHANGED <<schema, rows, rowsSet, index, connVars, conn, active, otherKeys, op, ret,
                 now, budget, stale, pre, retLog>>

InsHmset(c) ==
  /\ pc[c] = "ins_hmset"
  /\ ReadClock
  /\ LET id == loc[c].rowId IN
     /\ rows' = [rows EXCEPT ![id] = Hmset(@, RowWithTimestamp(op[c].rec, TimeStr(now')))]
     /\ dirty' = Touch(RowKey(id))
     /\ stale' = StaleAfterWrite(c, id)
  /\ pc' = [pc EXCEPT ![c] = "ins_sadd"]
  /\ UNCHANGED <<schema, nextId, rowsSet, index, watching, conn, active, otherKeys, op, loc,
                 ret, budget, pre, retLog>>

InsSadd(c) ==
  /\ pc[c] = "ins_sadd"
  /\ rowsSet' = rowsSet \cup {loc[c].rowId}
  /\ LET cmds == InsertIndexCmds(op[c].rec, loc[c].rowId) IN
     IF cmds = <<>>
     THEN /\ Return(c, loc[c].rowId)
          /\ retLog' = Append(retLog, <<"ins", loc[c].rowId>>)
          /\ UNCHANGED loc
     ELSE /\ loc' = [loc EXCEPT ![c].pipe = cmds]
          /\ pc' = [pc EXCEPT ![c] = "ins_index"]
          /\ UNCHANGED <<ret, retLog>>
  /\ UNCHANGED <<schema, nextId, rows, index, connVars, conn, active, otherKeys, op, now,
                 budget, stale, pre>>

InsIndex(c) ==
  /\ pc[c] = "ins_index"
  /\ index' = ApplyCmd(index, Head(loc[c].pipe))
  /\ loc' = [loc EXCEPT ![c].pipe = Tail(@)]
  /\ IF Len(loc[c].pipe) = 1
     THEN /\ Return(c, loc[c].rowId)
          /\ retLog' = Append(retLog, <<"ins", loc[c].rowId>>)
     ELSE UNCHANGED <<pc, ret, retLog>>
  /\ UNCHANGED <<schema, nextId, rows, rowsSet, connVars, conn, active, otherKeys, op, now,
                 budget, stale, pre>>

\* ---------------------------------------------------- WATCH / UNWATCH / EXEC
Watch(c, key) == [watching EXCEPT ![conn[c]] = @ \cup {key}]
UnwatchedKeys(c) == [watching EXCEPT ![conn[c]] = {}]
CleanFlagKept(c, d) == d

\* UNWATCH, and EXEC whether it commits or not, clear the connection's flag.
CleanFlag(c, d) == [d EXCEPT ![conn[c]] = FALSE]

\* EXEC is aborted (replies null) when the connection's flag is set.
ExecAborted(c) == dirty[conn[c]]

RetryOrThrowLate(c, again, msg) ==
  /\ loc' = [loc EXCEPT ![c].attempt = @ + 1]
  /\ IF loc[c].attempt + 1 <= maxRetries
     THEN /\ pc' = [pc EXCEPT ![c] = again]
          /\ UNCHANGED ret
     ELSE Return(c, msg)

RetryUnbounded(c, again, msg) ==
  /\ pc' = [pc EXCEPT ![c] = again]
  /\ UNCHANGED <<loc, ret>>

\* `continue` of the retry loop: attempt++ and the loop test.
RetryOrThrow(c, again, msg) ==
  /\ loc' = [loc EXCEPT ![c].attempt = @ + 1]
  /\ IF loc[c].attempt + 1 < maxRetries
     THEN /\ pc' = [pc EXCEPT ![c] = again]
          /\ UNCHANGED ret
     ELSE Return(c, msg)

\* ------------------------------------------------------------------ update
\* update's indexUpdates: the entries of updates whose old value is truthy
\* and differs from the new one.
IndexUpdates(currentData, updates) ==
  LET Moves(f) == /\ f \in DOMAIN updates
                  /\ f \in DOMAIN currentData
                  /\ currentData[f] # ""
                  /\ currentData[f] # updates[f]
      e == SelectSeq(FieldOrder, Moves)
  IN [i \in 1..Len(e) |->
        [field |-> e[i], oldValue |-> currentData[e[i]], newValue |-> updates[e[i]]]]

\* update's index pipeline: SREM from the old set, SADD to the new one.
UpdateIndexCmds(indexUpdates, id) ==
  [i \in 1..(2 * Len(indexUpdates)) |->
     LET u == indexUpdates[(i + 1) \div 2] IN
     IF i % 2 = 1
     THEN [cmd |-> "srem", field |-> u.field, value |-> u.oldValue, id |-> id]
     ELSE [cmd |-> "sadd", field |-> u.field, value |-> u.newValue, id |-> id]]

UpdateWriteBothStamps(updates, timestamp) ==
  Hmset(updates, [k \in SysFields |-> timestamp])

\* hmset(rowKey, { ...updates, _updated_at: timestamp })
UpdateWrite(updates, timestamp) ==
  Hmset(updates, [k \in {"_updated_at"} |-> timestamp])

UpdStart(c, id, updates) ==
  /\ CanStart(c)
  /\ Begin(c, [NoOp EXCEPT !.kind = "update", !.id = id, !.rec = updates])
  /\ watching' = Watch(c, RowKey(id))
  /\ stale' = [stale EXCEPT ![c] = FALSE]
  /\ loc' = [loc EXCEPT ![c] = NoLoc]
  /\ pc' = [pc EXCEPT ![c] = "upd_exists"]
  /\ ret' = [ret EXCEPT ![c] = "none"]
  /\ UNCHANGED <<storeVars, dirty, conn, active, otherKeys, now, retLog>>

UpdRewatch(c) ==
  /\ pc[c] = "upd_watch"
  /\ watching' = Watch(c, RowKey(op[c].id))
  /\ stale' = [stale EXCEPT ![c] = FALSE]
  /\ pc' = [pc EXCEPT ![c] = "upd_exists"]
  /\ UNCHANGED <<storeVars, dirty, conn, active, otherKeys, op, loc, ret, now, budget, pre,
                 retLog>>

UpdExistsBlind(c) ==
  /\ pc[c] = "upd_exists"
  /\ pc' = [pc EXCEPT ![c] = "upd_hgetall"]
  /\ UNCHANGED <<storeVars, watching, dirty, ret, conn, active, otherKeys, op, loc, now, budget,
                 stale, pre, retLog>>

UpdExists(c) ==
  /\ pc[c] = "upd_exists"
  /\ IF DOMAIN rows[op[c].id] = {}
     THEN /\ watching' = UnwatchedKeys(c)
          /\ dirty' = CleanFlag(c, dirty)
          /\ Return(c, "false")
     ELSE /\ pc' = [pc EXCEPT ![c] = "upd_hgetall"]
          /\ UNCHANGED <<watching, dirty, ret>>
  /\ UNCHANGED <<storeVars, conn, active, otherKeys, op, loc, now, budget, stale, pre, retLog>>

RECURSIVE ApplyAll(_, _)
ApplyAll(idx, cmds) ==
  IF cmds = <<>> THEN idx ELSE ApplyAll(ApplyCmd(idx, Head(cmds)), Tail(cmds))

UpdHgetallMovesIndex(c) ==
  /\ pc[c] = "upd_hgetall"
  /\ loc' = [loc EXCEPT ![c].data = rows[op[c].id]]
  /\ index' = ApplyAll(index, UpdateIndexCmds(IndexUpdates(rows[op[c].id], op[c].rec), op[c].id))
  /\ pc' = [pc EXCEPT ![c] = "upd_exec"]
  /\ UNCHANGED <<schema, nextId, rows, rowsSet, connVars, conn, active, otherKeys, op, ret,
                 now, budget, stale, pre, retLog>>

UpdHgetall(c) ==
  /\ pc[c] = "upd_hgetall"
  /\ loc' = [loc EXCEPT ![c].data = rows[op[c].id]]
  /\ pc' = [pc EXCEPT ![c] = "upd_exec"]
  /\ UNCHANGED <<storeVars, connVars, conn, active, otherKeys, op, ret, now, budget, stale,
                 pre, retLog>>

UpdExec(c) ==
  /\ pc[c] = "upd_exec"
  /\ ReadClock
  /\ watching' = UnwatchedKeys(c)
  /\ IF ExecAborted(c)
     THEN /\ dirty' = CleanFlag(c, dirty)
          /\ RetryOrThrow(c, "upd_watch", "err_max_retries")
          /\ UNCHANGED <<rows, stale>>
     ELSE LET id == op[c].id
              cmds == UpdateIndexCmds(IndexUpdates(loc[c].data, op[c].rec), id)
          IN /\ rows' = [rows EXCEPT ![id] = Hmset(@, UpdateWrite(op[c].rec, TimeStr(now)))]
             /\ dirty' = CleanFlag(c, Touch(RowKey(id)))
             /\ stale' = StaleAfterWrite(c, id)
             /\ loc' = [loc EXCEPT ![c].pipe = cmds, ![c].committed = TRUE]
             /\ IF cmds = <<>> THEN Return(c, "true")
                ELSE /\ pc' = [pc EXCEPT ![c] = "upd_index"]
                     /\ UNCHANGED ret
  /\ UNCHANGED <<schema, nextId, rowsSet, index, conn, active, otherKeys, op, budget,
                 pre, retLog>>

UpdIndex(c) ==
  /\ pc[c] = "upd_index"
  /\ index' = ApplyCmd(index, Head(loc[c].pipe))
  /\ loc' = [loc EXCEPT ![c].pipe = Tail(@)]
  /\ IF Len(loc[c].pipe) = 1 THEN Return(c, "true") ELSE UNCHANGED <<pc, ret>>
  /\ UNCHANGED <<schema, nextId, rows, rowsSet, connVars, conn, active, otherKeys, op, now,
                 budget, stale, pre, retLog>>

\* ------------------------------------------------------------------ delete
\* delete's index pipeline: one SREM per entry of rowData whose field name
\* does not start with '_'.
DeleteIndexCmds(rowData, id) ==
  LET Indexed(f) == f \in DOMAIN rowData /\ f \notin SysFields
      e == SelectSeq(FieldOrder, Indexed)
  IN [i \in 1..Len(e) |->
        [cmd |-> "srem", field |-> e[i], value |-> rowData[e[i]], id |-> id]]

DelStart(c, id) ==
  /\ CanStart(c)
  /\ Begin(c, [NoOp EXCEPT !.kind = "delete", !.id = id])
  /\ watching' = Watch(c, RowKey(id))
  /\ stale' = [stale EXCEPT ![c] = FALSE]
  /\ loc' = [loc EXCEPT ![c] = NoLoc]
  /\ pc' = [pc EXCEPT ![c] = "del_hgetall"]
  /\ ret' = [ret EXCEPT ![c] = "none"]
  /\ UNCHANGED <<storeVars, dirty, conn, active, otherKeys, now, retLog>>

DelRewatch(c) ==
  /\ pc[c] = "del_watch"
  /\ watching' = Watch(c, RowKey(op[c].id))
  /\ stale' = [stale EXCEPT ![c] = FALSE]
  /\ pc' = [pc EXCEPT ![c] = "del_hgetall"]
  /\ UNCHANGED <<storeVars, dirty, conn, active, otherKeys, op, loc, ret, now, budget, pre,
                 retLog>>

DelHgetall(c) ==
  /\ pc[c] = "del_hgetall"
  /\ IF DOMAIN rows[op[c].id] = {}
     THEN /\ watching' = UnwatchedKeys(c)
          /\ dirty' = CleanFlag(c, dirty)
          /\ Return(c, "false")
          /\ UNCHANGED loc
     ELSE /\ loc' = [loc EXCEPT ![c].data = rows[op[c].id]]
          /\ pc' = [pc EXCEPT ![c] = "del_exec"]
          /\ UNCHANGED <<watching, dirty, ret>>
  /\ UNCHANGED <<storeVars, conn, active, otherKeys, op, now, budget, stale, pre, retLog>>

DelExec(c) ==
  /\ pc[c] = "del_exec"
  /\ watching' = UnwatchedKeys(c)
  /\ IF ExecAborted(c)
     THEN /\ dirty' = CleanFlag(c, dirty)
          /\ RetryOrThrow(c, "del_watch", "err_max_retries")
          /\ UNCHANGED <<rows, rowsSet, stale, retLog, sortedVars>>
     ELSE LET id == op[c].id
              cmds == DeleteIndexCmds(loc[c].data, id)
          IN /\ rowsSet' = rowsSet \ {id}
             /\ rows' = [rows EXCEPT ![id] = EmptyHash]
             /\ DelSortedSets(RowKeyName(id))
             /\ dirty' = CleanFlag(c, IF DOMAIN rows[id] # {} THEN Touch(RowKey(id)) ELSE dirty)
             /\ stale' = IF DOMAIN rows[id] # {} THEN StaleAfterWrite(c, id) ELSE stale
             /\ retLog' = Append(retLog, <<"del", id>>)
             /\ loc' = [loc EXCEPT ![c].pipe = cmds, ![c].committed = TRUE]
             /\ IF cmds = <<>> THEN Return(c, "true")
                ELSE /\ pc' = [pc EXCEPT ![c] = "del_index"]
                     /\ UNCHANGED ret
  /\ UNCHANGED <<schema, nextId, index, conn, active, sessions, sessLog, op, now, budget, pre>>

DelIndex(c) ==
  /\ pc[c] = "del_index"
  /\ index' = ApplyCmd(index, Head(loc[c].pipe))
  /\ loc' = [loc EXCEPT ![c].pipe = Tail(@)]
  /\ IF Len(loc[c].pipe) = 1 THEN Return(c, "true") ELSE UNCHANGED <<pc, ret>>
  /\ UNCHANGED <<schema, nextId, rows, rowsSet, connVars, conn, active, otherKeys, op, now,
                 budget, stale, pre, retLog>>

\* ---------------------------------------------------------------- sessions
SessionLiveAtExpiry(sessionId) ==
  sessions[sessionId] # NoSession /\ now <= sessions[sessionId].expiresAt

\* GET session:{id}: the user id, or null when the key is absent or expired.
SessionLive(sessionId) ==
  sessions[sessionId] # NoSession /\ now < sessions[sessionId].expiresAt

\* SETEX key seconds value
Setex(userId, expiresInSeconds) ==
  [userId |-> userId, expiresAt |-> now + expiresInSeconds]

\* deleteSession: one DEL; it returns whether the key was there.
DeleteSession(c, sessionId) ==
  /\ CanStart(c)
  /\ Begin(c, [NoOp EXCEPT !.kind = "deleteSession", !.id = sessionId])
  /\ sessions' = [sessions EXCEPT ![sessionId] = NoSession]
  /\ sessLog' = IF SessionLive(sessionId) THEN [sessLog EXCEPT ![sessionId] = LogDeleted]
                ELSE sessLog
  /\ dirty' = IF SessionLive(sessionId) THEN Touch(SessionKey(sessionId)) ELSE dirty
  /\ Return(c, IF SessionLive(sessionId) THEN "true" ELSE "false")
  /\ loc' = [loc EXCEPT ![c] = NoLoc]
  /\ UNCHANGED <<storeVars, watching, conn, active, sortedVars, now, stale, retLog>>

\* generateSessionId: the clock and a random suffix, an id no session had before
FreshSessionIds == {i \in SessIds : sessLog[i].state = "none"}

\* createSession: one SETEX under a new id
CreateSession(c, userId, expiresInSeconds) ==
  /\ CanStart(c)
  /\ Begin(c, [NoOp EXCEPT !.kind = "createSession", !.userId = userId,
                           !.ttl = expiresInSeconds, !.seq = budget])
  /\ \E sessionId \in FreshSessionIds :
       /\ sessions' = [sessions EXCEPT ![sessionId] = Setex(userId, expiresInSeconds)]
       /\ sessLog' = [sessLog EXCEPT ![sessionId] = LogSet(userId, now, expiresInSeconds)]
       /\ dirty' = Touch(SessionKey(sessionId))
       /\ Return(c, sessionId)
  /\ loc' = [loc EXCEPT ![c] = NoLoc]
  /\ UNCHANGED <<storeVars, watching, conn, active, sortedVars, now, stale, retLog>>

\* getSession: one GET
GetSession(c, sessionId) ==
  /\ CanStart(c)
  /\ Begin(c, [NoOp EXCEPT !.kind = "getSession", !.id = sessionId, !.seq = budget])
  /\ Return(c, IF SessionLive(sessionId) THEN sessions[sessionId].userId ELSE "null")
  /\ loc' = [loc EXCEPT ![c] = NoLoc]
  /\ UNCHANGED <<storeVars, connVars, conn, active, otherKeys, now, stale, retLog>>

\* the store's clock runs on between the calls, as far as any lifetime reaches
Horizon == MaxTime + MaxOf(Ttls)
Tick ==
  /\ now < Horizon
  /\ now' = now + 1
  /\ UNCHANGED <<storeVars, connVars, conn, active, otherKeys, pc, op, loc, ret, budget,
                 stale, pre, retLog>>

RsStart(c, sessionId, expiresInSeconds) ==
  /\ CanStart(c)
  /\ Begin(c, [NoOp EXCEPT !.kind = "refreshSession", !.id = sessionId,
                           !.ttl = expiresInSeconds])
  /\ watching' = Watch(c, SessionKey(sessionId))
  /\ loc' = [loc EXCEPT ![c] = NoLoc]
  /\ pc' = [pc EXCEPT ![c] = "rs_get"]
  /\ ret' = [ret EXCEPT ![c] = "none"]
  /\ UNCHANGED <<storeVars, dirty, conn, active, otherKeys, now, stale, retLog>>

RsRewatch(c) ==
  /\ pc[c] = "rs_watch"
  /\ watching' = Watch(c, SessionKey(op[c].id))
  /\ pc' = [pc EXCEPT ![c] = "rs_get"]
  /\ UNCHANGED <<storeVars, dirty, conn, active, otherKeys, op, loc, ret, now, budget,
                 stale, pre, retLog>>

RsGet(c) ==
  /\ pc[c] = "rs_get"
  /\ IF ~SessionLive(op[c].id) \/ sessions[op[c].id].userId = ""
     THEN /\ watching' = UnwatchedKeys(c)
          /\ dirty' = CleanFlag(c, dirty)
          /\ Return(c, "false")
          /\ UNCHANGED loc
     ELSE /\ loc' = [loc EXCEPT ![c].userId = sessions[op[c].id].userId]
          /\ pc' = [pc EXCEPT ![c] = "rs_exec"]
          /\ UNCHANGED <<watching, dirty, ret>>
  /\ UNCHANGED <<storeVars, conn, active, otherKeys, op, now, budget, stale, pre, retLog>>

RsExec(c) ==
  /\ pc[c] = "rs_exec"
  /\ watching' = UnwatchedKeys(c)
  /\ IF ExecAborted(c)
     THEN /\ dirty' = CleanFlag(c, dirty)
          /\ RetryOrThrow(c, "rs_watch", "err_max_retries")
          /\ UNCHANGED <<sessions, sessLog>>
     ELSE /\ sessions' = [sessions EXCEPT ![op[c].id] = Setex(loc[c].userId, op[c].ttl)]
          /\ sessLog' = [sessLog EXCEPT ![op[c].id] = LogSet(loc[c].userId, now, op[c].ttl)]
          /\ dirty' = CleanFlag(c, Touch(SessionKey(op[c].id)))
          /\ Return(c, "true")
          /\ UNCHANGED loc
  /\ UNCHANGED <<storeVars, conn, active, sortedVars, op, now, budget, stale, pre, retLog>>

\* ------------------------------------------------------------ store errors
\* the positions of update, delete and refreshSession inside the try block:
\* the next store command may raise instead of replying
InTry ==
  {"upd_watch", "upd_exists", "upd_hgetall", "upd_exec", "upd_index",
   "del_watch", "del_hgetall", "del_exec", "del_index",
   "rs_watch", "rs_get", "rs_exec"}

\* a store command raises: control passes to the catch block
StoreError(c) ==
  /\ pc[c] \in InTry
  /\ pc' = [pc EXCEPT ![c] = "catch"]
  /\ UNCHANGED <<storeVars, connVars, conn, active, otherKeys, op, loc, ret, now, budget,
                 stale, pre, retLog>>

\* catch (error) { await this.redis.unwatch(); throw error; }: the UNWATCH is a
\* store command too; when it raises, its error is the one thrown, and the
\* watch is still there unless the store has dropped the connection
CatchUnwatch(c) ==
  /\ pc[c] = "catch"
  /\ \/ /\ watching' = UnwatchedKeys(c)
        /\ dirty' = CleanFlag(c, dirty)
        /\ Return(c, "err_store")
     \/ /\ watching' \in {watching, UnwatchedKeys(c)}
        /\ dirty' = IF watching' = watching THEN dirty ELSE CleanFlag(c, dirty)
        /\ Return(c, "err_unwatch")
  /\ UNCHANGED <<storeVars, conn, active, otherKeys, op, loc, now, budget, stale, pre,
                 retLog>>

\* ------------------------------------------------------------- sorted sets
NotFound == [found |-> FALSE, value |-> 0]
Value(n) == [found |-> TRUE, value |-> n]

MinOf(S) == CHOOSE x \in S : \A y \in S : x <= y
\* the scores a run can reach
ScoreRange ==
  (MinOf(Increments \cup {0}) * MaxZOps)..(MaxOf(AddScores) + MaxOf(Increments) * MaxZOps)

\* the store's reply for a score, and parseFloat of it
ScoreStr(n) == ToString(n)
ParseFloat(str) == CHOOSE n \in ScoreRange : ScoreStr(n) = str

ZaddKeepOld(z, score, member) ==
  [m \in DOMAIN z \cup {member} |-> IF m \in DOMAIN z THEN z[m] ELSE score]

\* ZADD key score member
Zadd(z, score, member) ==
  [m \in DOMAIN z \cup {member} |-> IF m = member THEN score ELSE z[m]]
\* its reply: the number of members added
ZaddReply(z, member) == IF member \in DOMAIN z THEN 0 ELSE 1

ZincrbyOverwrite(z, increment, member) == Zadd(z, increment, member)

\* ZINCRBY key increment member (an absent member counts as score 0)
Zincrby(z, increment, member) ==
  Zadd(z, (IF member \in DOMAIN z THEN z[member] ELSE 0) + increment, member)

\* ZREM key member, and its reply
Zrem(z, member) == [m \in DOMAIN z \ {member} |-> z[m]]
ZremReply(z, member) == IF member \in DOMAIN z THEN 1 ELSE 0

\* ZCARD
Zcard(z) == Cardinality(DOMAIN z)

\* the order of a sorted set: by score, members of one score lexicographically
\* (row ids, which are digits, come before the names of the other members)
LexOrder == [i \in 1..MaxId |-> ToString(i)] \o MemberOrder
Pos(member) == CHOOSE i \in 1..Len(LexOrder) : LexOrder[i] = member
Before(z, a, b) == z[a] < z[b] \/ (z[a] = z[b] /\ Pos(a) < Pos(b))

\* ZRANGE key 0 -1
Zrange(z) ==
  CHOOSE s \in [1..Zcard(z) -> DOMAIN z] :
    \A i, j \in 1..Zcard(z) : i < j => Before(z, s[i], s[j])

ZrevrangeTiesAscending(z) ==
  CHOOSE s \in [1..Zcard(z) -> DOMAIN z] :
    \A i, j \in 1..Zcard(z) :
      i < j => (z[s[i]] > z[s[j]] \/ (z[s[i]] = z[s[j]] /\ Pos(s[i]) < Pos(s[j])))

\* ZREVRANGE key 0 -1
Zrevrange(z) ==
  CHOOSE s \in [1..Zcard(z) -> DOMAIN z] :
    \A i, j \in 1..Zcard(z) : i < j => Before(z, s[j], s[i])

IndexOf(s, member) == CHOOSE i \in 1..Len(s) : s[i] = member

\* getSortedSetRank / getSortedSetRankReverse: ZRANK / ZREVRANK
GetSortedSetRank(z, member) ==
  IF member \in DOMAIN z THEN Value(IndexOf(Zrange(z), member) - 1) ELSE NotFound
GetSortedSetRankReverse(z, member) ==
  IF member \in DOMAIN z THEN Value(IndexOf(Zrevrange(z), member) - 1) ELSE NotFound

\* countSortedSet
CountSortedSet(z) == Zcard(z)

\* getSortedSetScore: ZSCORE, parsed
GetSortedSetScore(z, member) ==
  IF member \in DOMAIN z THEN Value(ParseFloat(ScoreStr(z[member]))) ELSE NotFound

\* a bound of a score range: a number, '-inf' or '+inf'
MinusInf == [kind |-> "-inf", n |-> 0]
PlusInf == [kind |-> "+inf", n |-> 0]
AtLeast(score, min) == min.kind = "-inf" \/ (min.kind = "num" /\ min.n <= score)
AtMost(score, max) == max.kind = "+inf" \/ (max.kind = "num" /\ score <= max.n)

\* RangeOptions: limit and offset may be left undefined
RangeOptions(withScores, limit, offset) ==
  [withScores |-> withScores, limit |-> limit, offset |-> offset]
\* the LIMIT arguments of a command, when it carries them
NoLimit == [given |-> FALSE, offset |-> 0, count |-> 0]
Limit(offset, count) == [given |-> TRUE, offset |-> offset, count |-> count]
\* LIMIT offset count: skip offset entries, keep count (all when negative)
LimitSlice(sel, limit) ==
  IF ~limit.given THEN sel
  ELSE IF limit.count < 0 THEN SubSeq(sel, limit.offset + 1, Len(sel))
  ELSE SubSeq(sel, limit.offset + 1, MinOf({Len(sel), limit.offset + limit.count}))

\* the replies with WITHSCORES are flat: member, score, member, score, ...
FlatWithScores(z, sel) ==
  [i \in 1..(2 * Len(sel)) |->
     IF i % 2 = 1 THEN sel[(i + 1) \div 2] ELSE ScoreStr(z[sel[i \div 2]])]
\* ... and the adapter reads them two entries at a time
FormatPairs(results) ==
  [i \in 1..(Len(results) \div 2) |->
     [member |-> results[2 * i - 1], score |-> ParseFloat(results[2 * i])]]

ZrangebyscoreLimitFirst(z, min, max, withScores, limit) ==
  LET InRange(m) == AtLeast(z[m], min) /\ AtMost(z[m], max)
      sel == SelectSeq(LimitSlice(Zrange(z), limit), InRange)
  IN IF withScores THEN FlatWithScores(z, sel) ELSE sel

\* ZRANGEBYSCORE key min max [WITHSCORES] [LIMIT offset count]: the flat reply
Zrangebyscore(z, min, max, withScores, limit) ==
  LET InRange(m) == AtLeast(z[m], min) /\ AtMost(z[m], max)
      sel == LimitSlice(SelectSeq(Zrange(z), InRange), limit)
  IN IF withScores THEN FlatWithScores(z, sel) ELSE sel

\* ZREVRANGEBYSCORE key max min [WITHSCORES] [LIMIT offset count]
Zrevrangebyscore(z, max, min, withScores, limit) ==
  LET InRange(m) == AtLeast(z[m], min) /\ AtMost(z[m], max)
      sel == LimitSlice(SelectSeq(Zrevrange(z), InRange), limit)
  IN IF withScores THEN FlatWithScores(z, sel) ELSE sel

\* LIMIT is sent only when both offset and limit are defined
LimitArgs(options) ==
  IF options.offset.found /\ options.limit.found
  THEN Limit(options.offset.value, options.limit.value)
  ELSE NoLimit

\* getSortedSetByScore: with withScores the reply is read two entries at a time
GetSortedSetByScore(z, min, max, options) ==
  LET results == Zrangebyscore(z, min, max, options.withScores, LimitArgs(options)) IN
  IF options.withScores THEN FormatPairs(results) ELSE results

\* getSortedSetByScoreReverse
GetSortedSetByScoreReverse(z, max, min, options) ==
  LET results == Zrevrangebyscore(z, max, min, options.withScores, LimitArgs(options)) IN
  IF options.withScores THEN FormatPairs(results) ELSE results

RankSliceStopExclusive(s, start, stop) ==
  LET n == Len(s)
      from0 == IF start < 0 THEN n + start ELSE start
      from == IF from0 < 0 THEN 0 ELSE from0
      to0 == IF stop < 0 THEN n + stop ELSE stop
      to == IF to0 >= n THEN n - 1 ELSE to0
  IN SubSeq(s, from + 1, to)

\* the entries a rank range start..stop selects: zero-based, both ends
\* included, a negative index counts from the end, and indices outside the
\* list are cut to it
RankSlice(s, start, stop) ==
  LET n == Len(s)
      from0 == IF start < 0 THEN n + start ELSE start
      from == IF from0 < 0 THEN 0 ELSE from0
      to0 == IF stop < 0 THEN n + stop ELSE stop
      to == IF to0 >= n THEN n - 1 ELSE to0
  IN SubSeq(s, from + 1, to + 1)

\* getSortedSetByRank: ZRANGE key start stop [WITHSCORES]
GetSortedSetByRank(z, start, stop, withScores) ==
  LET sel == RankSlice(Zrange(z), start, stop)
      results == IF withScores THEN FlatWithScores(z, sel) ELSE sel
  IN IF withScores THEN FormatPairs(results) ELSE results

\* getSortedSetByRankReverse: ZREVRANGE key start stop [WITHSCORES]
GetSortedSetByRankReverse(z, start, stop, withScores) ==
  LET sel == RankSlice(Zrevrange(z), start, stop)
      results == IF withScores THEN FlatWithScores(z, sel) ELSE sel
  IN IF withScores THEN FormatPairs(results) ELSE results

SortedFrame ==
  UNCHANGED <<storeVars, connVars, conn, active, sessions, sessLog, tsorted, pc, op, loc, ret,
              now, stale, pre, retLog>>

\* addToSortedSet
ZAdd(c, score, member) ==
  /\ CanStart(c)
  /\ budget' = budget - 1
  /\ zset' = Zadd(zset, score, member)
  /\ zlast' = [kind |-> "add", member |-> member, arg |-> score,
               result |-> ZaddReply(zset, member)]
  /\ zbase' = [m \in DOMAIN zbase \cup {member} |-> IF m = member THEN score ELSE zbase[m]]
  /\ zsum' = [m \in DOMAIN zsum \cup {member} |-> IF m = member THEN 0 ELSE zsum[m]]
  /\ SortedFrame

\* incrementSortedSetScore
ZIncr(c, member, increment) ==
  /\ CanStart(c)
  /\ budget' = budget - 1
  /\ zset' = Zincrby(zset, increment, member)
  /\ zlast' = [kind |-> "incr", member |-> member, arg |-> increment,
               result |-> ParseFloat(ScoreStr(zset'[member]))]
  /\ zbase' = [m \in DOMAIN zbase \cup {member} |-> IF m \in DOMAIN zbase THEN zbase[m] ELSE 0]
  /\ zsum' = [m \in DOMAIN zsum \cup {member} |->
                (IF m \in DOMAIN zsum THEN zsum[m] ELSE 0) + (IF m = member THEN increment ELSE 0)]
  /\ SortedFrame

\* removeFromSortedSet with one member
ZRem(c, member) ==
  /\ CanStart(c)
  /\ budget' = budget - 1
  /\ zset' = Zrem(zset, member)
  /\ zlast' = [kind |-> "rem", member |-> member, arg |-> 0,
               result |-> ZremReply(zset, member)]
  /\ zbase' = [m \in DOMAIN zbase \ {member} |-> zbase[m]]
  /\ zsum' = [m \in DOMAIN zsum \ {member} |-> zsum[m]]
  /\ SortedFrame

\* what is left of a sorted set without the members of R
Without(z, R) == [m \in DOMAIN z \ R |-> z[m]]

ScoreVictimsMaxExclusive(z, min, max) ==
  {m \in DOMAIN z : AtLeast(z[m], min) /\ AtMost(z[m] + 1, max)}

\* the members ZREMRANGEBYSCORE key min max removes
ScoreVictims(z, min, max) ==
  {m \in DOMAIN z : AtLeast(z[m], min) /\ AtMost(z[m], max)}
\* the members ZREMRANGEBYRANK key start stop removes
RankVictims(z, start, stop) ==
  LET sel == RankSlice(Zrange(z), start, stop) IN {sel[i] : i \in 1..Len(sel)}

\* a removal: the members go, the reply is how many went
SortedRemoval(c, kind, member, arg, victims) ==
  /\ CanStart(c)
  /\ budget' = budget - 1
  /\ zset' = Without(zset, victims)
  /\ zlast' = [kind |-> kind, member |-> member, arg |-> arg,
               result |-> Cardinality(victims)]
  /\ zbase' = Without(zbase, victims)
  /\ zsum' = Without(zsum, victims)
  /\ SortedFrame

\* removeFromSortedSet with a list of members: ZREM key member [member ...]
ZRemMembers(c, members) ==
  SortedRemoval(c, "remMembers", "", members, members \cap DOMAIN zset)
\* removeFromSortedSetByRank
ZRemByRank(c, start, stop) ==
  SortedRemoval(c, "remByRank", "", <<start, stop>>, RankVictims(zset, start, stop))
\* removeFromSortedSetByScore
ZRemByScore(c, min, max) ==
  SortedRemoval(c, "remByScore", "", <<min, max>>, ScoreVictims(zset, min, max))

\* a read of the sorted set leaves it as it is
SortedRead(c, call) ==
  /\ CanStart(c)
  /\ zlast' = call
  /\ UNCHANGED <<zset, zbase, zsum, budget>>
  /\ SortedFrame

\* getSortedSetByRank / getSortedSetByRankReverse
ZByRank(c, start, stop, withScores) ==
  SortedRead(c, [kind |-> "byRank", member |-> "", arg |-> <<start, stop, withScores>>,
                 result |-> GetSortedSetByRank(zset, start, stop, withScores)])
ZByRankReverse(c, start, stop, withScores) ==
  SortedRead(c, [kind |-> "byRankReverse", member |-> "",
                 arg |-> <<start, stop, withScores>>,
                 result |-> GetSortedSetByRankReverse(zset, start, stop, withScores)])

\* getSortedSetByScore / getSortedSetByScoreReverse
ZByScore(c, min, max, options) ==
  SortedRead(c, [kind |-> "byScore", member |-> "", arg |-> <<min, max, options>>,
                 result |-> GetSortedSetByScore(zset, min, max, options)])
ZByScoreReverse(c, max, min, options) ==
  SortedRead(c, [kind |-> "byScoreReverse", member |-> "", arg |-> <<min, max, options>>,
                 result |-> GetSortedSetByScoreReverse(zset, max, min, options)])

\* ------------------------------------------------------------------- reads
\* getById: HGETALL, null when the hash has no field.
GetById(id) == rows[id]
Found(id) == DOMAIN GetById(id) # {}
\* getAll: the ids of the membership set, each with its HGETALL.
GetAllIds == rowsSet
\* findByField: one entry per id of the index set.
FindByFieldIds(field, value) == index[IndexKey(field, value)]
\* tableExists: EXISTS of the schema key.
TableExists == schema # {}
\* countByField: SCARD of the index set.
CountByField(field, value) == Cardinality(index[IndexKey(field, value)])

\* the replies of SMEMBERS and SSCAN list the ids in one order
IdOrder == [i \in 1..MaxId |-> ToString(i)]
IdsInOrder(S) == LET In(i) == i \in S IN SelectSeq(IdOrder, In)

\* getAll and scanRows enumerate the membership set, findByField and
\* scanByField an index set (SSCAN of a small set replies with all of it)
ListKinds == {"getAll", "scanRows", "findByField", "scanByField"}
ListedIds(kind, field, value) ==
  IF kind \in {"getAll", "scanRows"} THEN GetAllIds ELSE FindByFieldIds(field, value)

\* the enumeration of the ids; no query options are given
LsIds(c, kind, field, value) ==
  /\ CanStart(c)
  /\ Begin(c, [NoOp EXCEPT !.kind = kind, !.fields = {field}, !.id = value])
  /\ LET ids == IdsInOrder(ListedIds(kind, field, value)) IN
     /\ loc' = [loc EXCEPT ![c] = [NoLoc EXCEPT !.page = ids]]
     /\ IF ids = <<>> THEN Return(c, "rows")
        ELSE /\ pc' = [pc EXCEPT ![c] = "ls_fetch"]
             /\ ret' = [ret EXCEPT ![c] = "none"]
  /\ UNCHANGED <<storeVars, connVars, conn, active, otherKeys, now, stale, retLog>>

\* one round of the loop over the ids: HGETALL, and the push
LsFetch(c) ==
  /\ pc[c] = "ls_fetch"
  /\ LET rowId == loc[c].page[loc[c].at + 1]
         rowData == rows[rowId]
     IN loc' = [loc EXCEPT ![c].at = @ + 1,
                           ![c].out = Append(@, [id |-> rowId, data |-> rowData])]
  /\ IF loc[c].at + 1 = Len(loc[c].page) THEN Return(c, "rows") ELSE UNCHANGED <<pc, ret>>
  /\ UNCHANGED <<storeVars, connVars, conn, active, otherKeys, op, now, budget, stale,
                 pre, retLog>>

\* -------------------------------------------------------------- createUser
\* the users table: field "a" holds the email, field "b" the password hash
EmailField == "a"
PasswordField == "b"
Emails == {"v", "w"}
\* bcrypt.hash(password, 10)
PasswordHash == "w"
\* { email, password: passwordHash, ...additionalData }, no additional data
UserData(email) == [k \in {EmailField, PasswordField} |->
                      IF k = EmailField THEN email ELSE PasswordHash]

\* createUser: findByField(table, 'email', email) starts with SMEMBERS of the
\* index set
CuSmembers(c, email) ==
  /\ CanStart(c)
  /\ Begin(c, [NoOp EXCEPT !.kind = "createUser", !.id = email, !.rec = UserData(email)])
  /\ LET ids == IdsInOrder(FindByFieldIds(EmailField, email)) IN
     /\ loc' = [loc EXCEPT ![c] = [NoLoc EXCEPT !.page = ids, !.floor = Floor]]
     /\ pc' = [pc EXCEPT ![c] = IF ids = <<>> THEN "cu_insert" ELSE "cu_fetch"]
  /\ ret' = [ret EXCEPT ![c] = "none"]
  /\ UNCHANGED <<storeVars, connVars, conn, active, otherKeys, now, stale, retLog>>

\* findByField's loop: one HGETALL per id; then existing.length > 0 throws
CuFetch(c) ==
  /\ pc[c] = "cu_fetch"
  /\ LET rowId == loc[c].page[loc[c].at + 1] IN
     loc' = [loc EXCEPT ![c].at = @ + 1,
                        ![c].out = Append(@, [id |-> rowId, data |-> rows[rowId]])]
  /\ IF loc[c].at + 1 = Len(loc[c].page) THEN Return(c, "err_user_exists")
     ELSE UNCHANGED <<pc, ret>>
  /\ UNCHANGED <<storeVars, connVars, conn, active, otherKeys, op, now, budget, stale,
                 pre, retLog>>

\* no user was found: the password is hashed and insert(table, userData) is
\* called, which starts with EXISTS of the schema key
CuInsert(c) ==
  /\ pc[c] = "cu_insert"
  /\ IF schema = {} THEN Return(c, "err_no_schema")
     ELSE /\ pc' = [pc EXCEPT ![c] = "ins_smembers"]
          /\ UNCHANGED ret
  /\ UNCHANGED <<storeVars, connVars, conn, active, otherKeys, op, loc, now, budget, stale,
                 pre, retLog>>

\* ------------------------------------------------- table-bound sorted index
\* ZADD key score member [score member ...]
ZaddAll(z, items) ==
  LET RECURSIVE Fold(_, _)
      Fold(acc, i) == IF i > Len(items) THEN acc
                      ELSE Fold(Zadd(acc, items[i].score, items[i].member), i + 1)
  IN Fold(z, 1)

TableSortedFrame ==
  UNCHANGED <<storeVars, connVars, conn, active, sessions, sessLog, zset, zlast, zbase, zsum,
              now, stale, retLog>>

\* createSortedIndex: addMultipleToSortedSet on {table}:sorted:{field}
CreateSortedIndex(c, idScorePairs) ==
  /\ CanStart(c)
  /\ Begin(c, [NoOp EXCEPT !.kind = "createSortedIndex", !.items = idScorePairs])
  /\ tsorted' = ZaddAll(tsorted, [i \in 1..Len(idScorePairs) |->
                                    [score |-> idScorePairs[i].score,
                                     member |-> idScorePairs[i].id]])
  /\ Return(c, "ok")
  /\ loc' = [loc EXCEPT ![c] = NoLoc]
  /\ TableSortedFrame

\* updateSortedIndex: addToSortedSet on {table}:sorted:{field}
UpdateSortedIndex(c, id, newScore) ==
  /\ CanStart(c)
  /\ Begin(c, [NoOp EXCEPT !.kind = "updateSortedIndex",
                           !.items = <<[id |-> id, score |-> newScore]>>])
  /\ tsorted' = Zadd(tsorted, newScore, id)
  /\ Return(c, "ok")
  /\ loc' = [loc EXCEPT ![c] = NoLoc]
  /\ TableSortedFrame

\* getRowsBySortedField, the index read: by score when a score bound is given,
\* by rank otherwise
SortedPage(z, options) ==
  LET order == IF options.order = "" THEN "asc" ELSE options.order
      limit == IF options.limit.found /\ options.limit.value # 0
               THEN options.limit.value ELSE -1
      offset == IF options.offset.found THEN options.offset.value ELSE 0
      min == IF options.minScore.found THEN options.minScore.value ELSE MinusInf
      max == IF options.maxScore.found THEN options.maxScore.value ELSE PlusInf
      range == RangeOptions(TRUE, IF limit >= 0 THEN Defined(limit) ELSE Undefined,
                            Defined(offset))
      stop == IF limit >= 0 THEN offset + limit - 1 ELSE -1
  IN IF options.minScore.found \/ options.maxScore.found
     THEN IF order = "desc"
          THEN GetSortedSetByScoreReverse(z, max, min, range)
          ELSE GetSortedSetByScore(z, min, max, range)
     ELSE IF order = "desc"
          THEN GetSortedSetByRankReverse(z, offset, stop, TRUE)
          ELSE GetSortedSetByRank(z, offset, stop, TRUE)

RowDataAlways(rowData) == TRUE

\* if (rowData): getById gives null for a hash without fields
RowDataPresent(rowData) == DOMAIN rowData # {}

GrRange(c, options) ==
  /\ CanStart(c)
  /\ Begin(c, [NoOp EXCEPT !.kind = "getRowsBySortedField", !.options = options])
  /\ LET results == SortedPage(tsorted, options) IN
     /\ loc' = [loc EXCEPT ![c] =
                  [NoLoc EXCEPT !.page = results,
                                !.liveAtRead = {results[i].member : i \in
                                                  {j \in 1..Len(results) :
                                                     Found(results[j].member)}}]]
     /\ IF results = <<>> THEN Return(c, "rows")
        ELSE /\ pc' = [pc EXCEPT ![c] = "gr_fetch"]
             /\ ret' = [ret EXCEPT ![c] = "none"]
  /\ UNCHANGED <<storeVars, connVars, conn, active, otherKeys, now, stale, retLog>>

\* one round of the loop over results: getById, and the push
GrFetch(c) ==
  /\ pc[c] = "gr_fetch"
  /\ LET e == loc[c].page[loc[c].at + 1]
         rowData == GetById(e.member)
     IN loc' = [loc EXCEPT ![c].at = @ + 1,
                           ![c].out = IF RowDataPresent(rowData)
                                      THEN Append(@, [id |-> e.member, data |-> rowData,
                                                      score |-> e.score])
                                      ELSE @]
  /\ IF loc[c].at + 1 = Len(loc[c].page) THEN Return(c, "rows") ELSE UNCHANGED <<pc, ret>>
  /\ UNCHANGED <<storeVars, connVars, conn, active, otherKeys, op, now, budget, stale,
                 pre, retLog>>

\* ----------------------------------------------------------- specification
InitStore ==
  /\ nextId = 0
  /\ rows = [i \in Ids |-> EmptyHash]
  /\ rowsSet = {}
  /\ index = [k \in Fields \X Vals |-> {}]

InitCallers ==
  /\ watching = [k \in Conns |-> {}]
  /\ dirty = [k \in Conns |-> FALSE]
  /\ pc = [c \in Callers |-> "idle"]
  /\ op = [c \in Callers |-> NoOp]
  /\ loc = [c \in Callers |-> NoLoc]
  /\ ret = [c \in Callers |-> "none"]
  /\ stale = [c \in Callers |-> FALSE]

InitSorted ==
  /\ zset = NoScores
  /\ zlast = NoCall
  /\ zbase = NoScores
  /\ zsum = NoScores
  /\ tsorted = NoScores

InitCommon ==
  /\ InitStore
  /\ InitSorted
  /\ sessions = [i \in SessIds |-> NoSession]
  /\ sessLog = [i \in SessIds |-> NoLog]
  /\ InitCallers
  /\ pre = Store
  /\ retLog = <<>>

\* A sequential run starts on a store whose table is not created yet, or was
\* created by createTable with one of the field lists.
Init ==
  /\ schema \in SchemaChoices
  /\ now = 0
  /\ InitCommon
  /\ active = {1}
  /\ conn = [c \in Callers |-> c]
  /\ budget = MaxOps

\* Sorted-set calls of concurrent callers start on an absent key.
InitSortedRun ==
  /\ schema = {}
  /\ now = 0
  /\ InitCommon
  /\ active = Callers
  /\ conn = [c \in Callers |-> 1]
  /\ budget = MaxZOps

\* Concurrent createTable / dropTable calls start with no table.
InitCt ==
  /\ schema = {}
  /\ now = 0
  /\ InitCommon
  /\ active = Callers
  /\ conn = [c \in Callers |-> c]
  /\ budget = MaxOpsConc

\* A concurrent run starts on the table createTable(t, ["a"]) has made.
InitConcCommon ==
  /\ schema = {"a"}
  /\ now = MaxTime
  /\ InitCommon
  /\ active = Callers
  /\ budget = MaxOpsConc

\* Each caller has its own adapter: new RedisTableAdapter() opens a connection.
InitConc ==
  /\ InitConcCommon
  /\ conn = [c \in Callers |-> c]

\* All callers share one adapter, so one connection.
InitShared ==
  /\ InitConcCommon
  /\ conn = [c \in Callers |-> 1]

\* A run of concurrent updates starts on the table createTable(t, ["a"]) has
\* made, holding the row insert(t, {a: "v"}) has written as id "1".
InitUpdCommon ==
  /\ schema = {"a"}
  /\ nextId = 1
  /\ rows = [i \in Ids |-> IF i = "1" THEN RowWithTimestamp([k \in {"a"} |-> "v"], TimeStr(MaxTime))
                            ELSE EmptyHash]
  /\ rowsSet = {"1"}
  /\ index = [k \in Fields \X Vals |-> IF k = IndexKey("a", "v") THEN {"1"} ELSE {}]
  /\ InitSorted
  /\ InitCallers
  /\ pre = Store
  /\ retLog = << <<"ins", "1">> >>
  /\ now = MaxTime
  /\ active = Callers

\* Each caller has an adapter of its own; the calls are updates, and there are
\* enough of them for one caller to use up its retries.
InitUpd ==
  /\ InitUpdCommon
  /\ sessions = [i \in SessIds |-> NoSession]
  /\ sessLog = [i \in SessIds |-> NoLog]
  /\ conn = [c \in Callers |-> c]
  /\ budget = UpdOps

\* A run of concurrent updates, deletes and session refreshes: as InitUpd, and
\* createSession("u1", 1) has made session "s1".
InitRetry ==
  /\ InitUpdCommon
  /\ sessions = [i \in SessIds |-> [userId |-> "u1", expiresAt |-> MaxTime + 1]]
  /\ sessLog = [i \in SessIds |-> LogSet("u1", MaxTime, 1)]
  /\ conn = [c \in Callers |-> c]
  /\ budget = UpdOps

\* The callers share one adapter, and call any of insert, update and delete.
InitUpdShared ==
  /\ InitUpdCommon
  /\ sessions = [i \in SessIds |-> NoSession]
  /\ sessLog = [i \in SessIds |-> NoLog]
  /\ conn = [c \in Callers |-> 1]
  /\ budget = MaxOpsConc

\* The calls of a sequential run, with their arguments.
Calls ==
  \/ \E c \in Callers, fields \in SchemaChoices : CtExists(c, fields)
  \/ \E c \in Callers, row \in Records : InsExists(c, row)
  \/ \E c \in Callers, id \in Ids, updates \in Records : UpdStart(c, id, updates)
  \/ \E c \in Callers, id \in Ids : DelStart(c, id)

\* The calls of a concurrent run.
ConcCalls ==
  \/ \E c \in Callers, row \in ConcRows : InsExists(c, row)
  \/ \E c \in Callers, id \in Ids, updates \in ConcUpdates : UpdStart(c, id, updates)
  \/ \E c \in Callers, id \in Ids : DelStart(c, id)

\* The later steps of the handlers.
InsSteps ==
  \/ \E c \in Callers : InsSmembers(c)
  \/ \E c \in Callers : InsIncr(c)
  \/ \E c \in Callers : InsHmset(c)
  \/ \E c \in Callers : InsSadd(c)
  \/ \E c \in Callers : InsIndex(c)

UpdDelSteps ==
  \/ \E c \in Callers : UpdExists(c)
  \/ \E c \in Callers : UpdHgetall(c)
  \/ \E c \in Callers : UpdExec(c)
  \/ \E c \in Callers : UpdIndex(c)
  \/ \E c \in Callers : DelHgetall(c)
  \/ \E c \in Callers : DelExec(c)
  \/ \E c \in Callers : DelIndex(c)

\* A retry needs a concurrent writer.
Retries ==
  \/ \E c \in Callers : UpdRewatch(c)
  \/ \E c \in Callers : DelRewatch(c)

Next ==
  \/ Calls
  \/ \E c \in Callers : CtSadd(c)
  \/ InsSteps
  \/ UpdDelSteps

UpdSteps ==
  \/ \E c \in Callers, id \in Ids, updates \in ConcUpdates : UpdStart(c, id, updates)
  \/ \E c \in Callers : UpdRewatch(c)
  \/ \E c \in Callers : UpdExists(c)
  \/ \E c \in Callers : UpdHgetall(c)
  \/ \E c \in Callers : UpdExec(c)
  \/ \E c \in Callers : UpdIndex(c)

NextUpd == UpdSteps

DropSteps ==
  \/ \E c \in Callers : DtSmembers(c)
  \/ \E c \in Callers : DtHgetall(c)
  \/ \E c \in Callers : DtPipe(c)

\* Sequential runs that also drop the table.
NextDrop == Next \/ DropSteps

\* Concurrent createTable and dropTable calls.
NextCt ==
  \/ \E c \in Callers, fields \in SchemaChoices : CtExists(c, fields)
  \/ \E c \in Callers : CtSadd(c)
  \/ \E c \in Callers : DtSmembers(c)
  \/ \E c \in Callers : DtPipe(c)

DelSteps ==
  \/ \E c \in Callers, id \in Ids : DelStart(c, id)
  \/ \E c \in Callers : DelRewatch(c)
  \/ \E c \in Callers : DelHgetall(c)
  \/ \E c \in Callers : DelExec(c)
  \/ \E c \in Callers : DelIndex(c)

SessionSteps ==
  \/ \E c \in Callers, sessionId \in SessIds : DeleteSession(c, sessionId)
  \/ \E c \in Callers, sessionId \in SessIds, ttl \in Ttls : RsStart(c, sessionId, ttl)
  \/ \E c \in Callers : RsRewatch(c)
  \/ \E c \in Callers : RsGet(c)
  \/ \E c \in Callers : RsExec(c)

\* In the runs that count retries every refresh asks for the same lifetime.
RetrySessionSteps ==
  \/ \E c \in Callers, sessionId \in SessIds : DeleteSession(c, sessionId)
  \/ \E c \in Callers, sessionId \in SessIds : RsStart(c, sessionId, 1)
  \/ \E c \in Callers : RsRewatch(c)
  \/ \E c \in Callers : RsGet(c)
  \/ \E c \in Callers : RsExec(c)

\* Concurrent updates and deletes of rows and refreshes of a session.
NextRetry == UpdSteps \/ DelSteps \/ RetrySessionSteps

NextConc == ConcCalls \/ InsSteps \/ UpdDelSteps \/ Retries

Spec == Init /\ [][Next]_vars

SpecConc == InitConc /\ [][NextConc]_vars

SpecShared == InitShared /\ [][NextConc]_vars

SpecUpd == InitUpd /\ [][NextUpd]_vars

NextSorted ==
  \/ \E c \in Callers, score \in AddScores, member \in Members : ZAdd(c, score, member)
  \/ \E c \in Callers, member \in Members, increment \in Increments : ZIncr(c, member, increment)
  \/ \E c \in Callers, member \in Members : ZRem(c, member)

SpecSorted == InitSortedRun /\ [][NextSorted]_vars

SpecDrop == Init /\ [][NextDrop]_vars

SpecCt == InitCt /\ [][NextCt]_vars

SpecRetry == InitRetry /\ [][NextRetry]_vars

SpecUpdShared == InitUpdShared /\ [][NextConc]_vars

SpecConcAny == (InitConc \/ InitShared) /\ [][NextConc]_vars

\* One caller's queries and removals start on any sorted set earlier
\* addToSortedSet calls can have left under the key.
SortedSets == UNION {[S -> AddScores] : S \in SUBSET Members}
InitSortedQuery ==
  /\ schema = {}
  /\ now = 0
  /\ InitStore
  /\ zset \in SortedSets
  /\ zlast = NoCall
  /\ zbase = zset
  /\ zsum = [m \in DOMAIN zset |-> 0]
  /\ tsorted = NoScores
  /\ sessions = [i \in SessIds |-> NoSession]
  /\ sessLog = [i \in SessIds |-> NoLog]
  /\ InitCallers
  /\ pre = Store
  /\ retLog = <<>>
  /\ active = {1}
  /\ conn = [c \in Callers |-> 1]
  /\ budget = MaxZOps

RankReads ==
  \/ \E c \in Callers, start \in RankStarts, stop \in RankStops, withScores \in BOOLEAN :
       ZByRank(c, start, stop, withScores)
  \/ \E c \in Callers, start \in RankStarts, stop \in RankStops, withScores \in BOOLEAN :
       ZByRankReverse(c, start, stop, withScores)

ScoreReads ==
  \/ \E c \in Callers, min \in QueryMins, max \in QueryMaxs, paging \in Pagings,
        withScores \in BOOLEAN :
       ZByScore(c, min, max, RangeOptions(withScores, paging.limit, paging.offset))
  \/ \E c \in Callers, min \in QueryMins, max \in QueryMaxs, paging \in Pagings,
        withScores \in BOOLEAN :
       ZByScoreReverse(c, max, min, RangeOptions(withScores, paging.limit, paging.offset))

NextSortedQuery == RankReads \/ ScoreReads

SpecSortedQuery == InitSortedQuery /\ [][NextSortedQuery]_vars

Removals ==
  \/ \E c \in Callers, members \in SUBSET Members : ZRemMembers(c, members)
  \/ \E c \in Callers, start \in RankStarts, stop \in RankStops : ZRemByRank(c, start, stop)
  \/ \E c \in Callers, min \in QueryMins, max \in QueryMaxs : ZRemByScore(c, min, max)

SpecSortedRemove == InitSortedQuery /\ [][Removals]_vars

\* Joins through the sorted index run next to deletes and updates: the table
\* createTable(t, ["a"]) has made holds the rows two inserts have written, and
\* createSortedIndex has given both a score.
InitJoin ==
  /\ schema = {"a"}
  /\ nextId = 2
  /\ rows = [i \in Ids |->
               IF i = "1" THEN RowWithTimestamp([k \in {"a"} |-> "v"], TimeStr(MaxTime))
               ELSE IF i = "2" THEN RowWithTimestamp([k \in {"a"} |-> "w"], TimeStr(MaxTime))
               ELSE EmptyHash]
  /\ rowsSet = {"1", "2"}
  /\ index = [k \in Fields \X Vals |-> IF k = IndexKey("a", "v") THEN {"1"}
                                       ELSE IF k = IndexKey("a", "w") THEN {"2"} ELSE {}]
  /\ zset = NoScores /\ zlast = NoCall /\ zbase = NoScores /\ zsum = NoScores
  /\ tsorted = [i \in {"1", "2"} |-> IF i = "1" THEN 5 ELSE 1]
  /\ sessions = [i \in SessIds |-> NoSession]
  /\ sessLog = [i \in SessIds |-> NoLog]
  /\ InitCallers
  /\ pre = Store
  /\ retLog = << <<"ins", "1">>, <<"ins", "2">> >>
  /\ now = MaxTime
  /\ active = Callers
  /\ conn = [c \in Callers |-> c]
  /\ budget = MaxOpsConc

JoinSteps ==
  \/ \E c \in Callers, options \in SortedQueries : GrRange(c, options)
  \/ \E c \in Callers : GrFetch(c)

NextJoin == JoinSteps \/ DelSteps \/ UpdSteps

SpecJoin == InitJoin /\ [][NextJoin]_vars

\* Writes of the sorted indexes: the table-bound one and the standalone one.
SortedWrites ==
  \/ \E c \in Callers, idScorePairs \in IndexItems : CreateSortedIndex(c, idScorePairs)
  \/ \E c \in Callers, id \in Ids, newScore \in AddScores : UpdateSortedIndex(c, id, newScore)
  \/ \E c \in Callers, score \in AddScores : ZAdd(c, score, "m1")

\* Sequential runs that mix row-store calls with sorted-index writes.
SpecIndexFrame == Init /\ [][NextDrop \/ SortedWrites]_vars

\* Session calls of concurrent callers, each with an adapter of its own, on a
\* store without sessions, while time passes.
InitSession ==
  /\ schema = {}
  /\ now = 0
  /\ InitCommon
  /\ active = Callers
  /\ conn = [c \in Callers |-> c]
  /\ budget = MaxOpsConc

NextSession ==
  \/ \E c \in Callers, userId \in Subjects, ttl \in Ttls : CreateSession(c, userId, ttl)
  \/ \E c \in Callers, sessionId \in SessIds : GetSession(c, sessionId)
  \/ SessionSteps
  \/ Tick

SpecSession == InitSession /\ [][NextSession]_vars

\* Session calls of callers that share one adapter, on the session
\* createSession("u1", 1) has made.
InitSessionShared ==
  /\ schema = {}
  /\ now = 0
  /\ InitStore
  /\ InitSorted
  /\ sessions = [i \in SessIds |-> Setex("u1", 1)]
  /\ sessLog = [i \in SessIds |-> LogSet("u1", 0, 1)]
  /\ InitCallers
  /\ pre = Store
  /\ retLog = <<>>
  /\ active = Callers
  /\ conn = [c \in Callers |-> 1]
  /\ budget = MaxOpsConc

SpecSessionShared == InitSessionShared /\ [][SessionSteps]_vars

\* Updates, deletes and refreshes whose store commands may raise: each caller
\* has an adapter of its own.
InitFault ==
  /\ InitUpdCommon
  /\ sessions = [i \in SessIds |-> [userId |-> "u1", expiresAt |-> MaxTime + 1]]
  /\ sessLog = [i \in SessIds |-> LogSet("u1", MaxTime, 1)]
  /\ conn = [c \in Callers |-> c]
  /\ budget = MaxOpsConc

FaultSteps ==
  \/ \E c \in Callers : StoreError(c)
  \/ \E c \in Callers : CatchUnwatch(c)

NextFault == NextRetry \/ FaultSteps

SpecFault == InitFault /\ [][NextFault]_vars

\* Two callers, each with an adapter of its own, make one update each; the
\* table holds the rows insert(t, {a: "v"}) and insert(t, {a: second}) have
\* written, second being "w" or the empty string.
InitTwoRows ==
  /\ schema = {"a"}
  /\ nextId = 2
  /\ \E second \in {"", "w"} :
       /\ rows = [i \in Ids |->
                    IF i = "1" THEN RowWithTimestamp([k \in {"a"} |-> "v"], TimeStr(MaxTime))
                    ELSE IF i = "2"
                      THEN RowWithTimestamp([k \in {"a"} |-> second], TimeStr(MaxTime))
                    ELSE EmptyHash]
       /\ index = [k \in Fields \X Vals |-> IF k = IndexKey("a", "v") THEN {"1"}
                                            ELSE IF k = IndexKey("a", second) THEN {"2"}
                                            ELSE {}]
  /\ rowsSet = {"1", "2"}
  /\ InitSorted
  /\ sessions = [i \in SessIds |-> NoSession]
  /\ sessLog = [i \in SessIds |-> NoLog]
  /\ InitCallers
  /\ pre = Store
  /\ retLog = << <<"ins", "1">>, <<"ins", "2">> >>
  /\ now = MaxTime
  /\ active = Callers
  /\ conn = [c \in Callers |-> c]
  /\ budget = Cardinality(Callers)

SpecTwoRows == InitTwoRows /\ [][NextUpd]_vars

\* A sequential run on a table that was used before: createTable(t, ["a"]) and
\* one insert, which returned "1".
InitUsed ==
  /\ schema = {"a"}
  /\ nextId = 1
  /\ rows = [i \in Ids |-> IF i = "1" THEN RowWithTimestamp([k \in {"a"} |-> "v"], TimeStr(0))
                            ELSE EmptyHash]
  /\ rowsSet = {"1"}
  /\ index = [k \in Fields \X Vals |-> IF k = IndexKey("a", "v") THEN {"1"} ELSE {}]
  /\ InitSorted
  /\ sessions = [i \in SessIds |-> NoSession]
  /\ sessLog = [i \in SessIds |-> NoLog]
  /\ InitCallers
  /\ pre = Store
  /\ retLog = << <<"ins", "1">> >>
  /\ now = 0
  /\ active = {1}
  /\ conn = [c \in Callers |-> c]
  /\ budget = MaxOps

\* Sequential runs, on a new or a used table, that also drop the table and
\* reset the id counter.
NextIds == NextDrop \/ \E c \in Callers : InitNextId(c)

SpecIds == (Init \/ InitUsed) /\ [][NextIds]_vars

\* Runs that never end: the callers keep calling update, delete and
\* refreshSession, as InitRetry but with no bound on the number of calls.
InitLive ==
  /\ InitUpdCommon
  /\ sessions = [i \in SessIds |-> [userId |-> "u1", expiresAt |-> MaxTime + 1]]
  /\ sessLog = [i \in SessIds |-> LogSet("u1", MaxTime, 1)]
  /\ conn = [c \in Callers |-> c]
  /\ budget = 1

\* one more call arrives
Arrive ==
  /\ budget = 0
  /\ budget' = 1
  /\ UNCHANGED <<storeVars, connVars, conn, active, otherKeys, pc, op, loc, ret, now, stale,
                 pre, retLog>>

\* (every call is about row "1" or session "s1": the calls contend)
LiveCalls ==
  \/ \E c \in Callers, updates \in ConcRows : UpdStart(c, "1", updates)
  \/ \E c \in Callers : DelStart(c, "1")
  \/ \E c \in Callers, sessionId \in SessIds : RsStart(c, sessionId, 1)

\* the store commands a started call of caller c is waiting for
LiveStep(c) ==
  \/ UpdRewatch(c)
  \/ UpdExists(c)
  \/ UpdHgetall(c)
  \/ UpdExec(c)
  \/ UpdIndex(c)
  \/ DelRewatch(c)
  \/ DelHgetall(c)
  \/ DelExec(c)
  \/ DelIndex(c)
  \/ RsRewatch(c)
  \/ RsGet(c)
  \/ RsExec(c)

NextLive == LiveCalls \/ Arrive \/ \E c \in Callers : LiveStep(c)

\* every store command that a call waits for completes
SpecLive == InitLive /\ [][NextLive]_vars /\ \A c \in Callers : WF_vars(LiveStep(c))

\* Concurrent updates and deletes, each caller with an adapter of its own.
InitUpdDel ==
  /\ InitUpdCommon
  /\ sessions = [i \in SessIds |-> NoSession]
  /\ sessLog = [i \in SessIds |-> NoLog]
  /\ conn = [c \in Callers |-> c]
  /\ budget = MaxOpsConc

NextUpdDel == UpdSteps \/ DelSteps

SpecUpdDel == InitUpdDel /\ [][NextUpdDel]_vars

\* As many callers as update has attempts; each of them issues one update of
\* row "1", and nothing else writes the row.  The callers have an adapter
\* each and issue the same update, so it is no restriction that they start
\* in the order of their numbers.
Crowd == 1..maxRetries
InitCrowd ==
  /\ schema = {"a"}
  /\ nextId = 1
  /\ rows = [i \in Ids |-> IF i = "1" THEN RowWithTimestamp([k \in {"a"} |-> "v"], TimeStr(MaxTime))
                            ELSE EmptyHash]
  /\ rowsSet = {"1"}
  /\ index = [k \in Fields \X Vals |-> IF k = IndexKey("a", "v") THEN {"1"} ELSE {}]
  /\ InitSorted
  /\ sessions = [i \in SessIds |-> NoSession]
  /\ sessLog = [i \in SessIds |-> NoLog]
  /\ watching = [k \in Crowd |-> {}]
  /\ dirty = [k \in Crowd |-> FALSE]
  /\ pc = [c \in Crowd |-> "idle"]
  /\ op = [c \in Crowd |-> NoOp]
  /\ loc = [c \in Crowd |-> NoLoc]
  /\ ret = [c \in Crowd |-> "none"]
  /\ stale = [c \in Crowd |-> FALSE]
  /\ pre = Store
  /\ retLog = << <<"ins", "1">> >>
  /\ now = MaxTime
  /\ active = Crowd
  /\ conn = [c \in Crowd |-> c]
  /\ budget = maxRetries

\* the one update of caller c
UpdOnce(c) ==
  /\ op[c].kind = "none"
  /\ \A d \in Crowd : d < c => op[d].kind = "update"
  /\ UpdStart(c, "1", [k \in {"a"} |-> "w"])

NextCrowd ==
  \/ \E c \in Crowd : UpdOnce(c)
  \/ \E c \in Crowd : UpdRewatch(c)
  \/ \E c \in Crowd : UpdExists(c)
  \/ \E c \in Crowd : UpdHgetall(c)
  \/ \E c \in Crowd : UpdExec(c)
  \/ \E c \in Crowd : UpdIndex(c)

SpecCrowd == InitCrowd /\ [][NextCrowd]_vars

\* Listing calls next to concurrent deletes, on a table with two rows.
ListSteps ==
  \/ \E c \in Callers, kind \in ListKinds : LsIds(c, kind, "a", "v")
  \/ \E c \in Callers : LsFetch(c)

NextList == ListSteps \/ DelSteps

SpecList == InitJoin /\ [][NextList]_vars

\* Sequential calls of getRowsBySortedField with every combination of order,
\* limit, offset and score range, each given or omitted, on the sorted index
\* of InitJoin (scores 1 and 5).
PageQueries ==
  {[order |-> o, limit |-> l, offset |-> f, minScore |-> mn, maxScore |-> mx] :
     o \in {"", "asc", "desc"},
     l \in {Undefined, Defined(1), Defined(2)},
     f \in {Undefined, Defined(0), Defined(1)},
     mn \in {NoOptions.minScore, [found |-> TRUE, value |-> ScoreBound(1)]},
     mx \in {NoOptions.maxScore, [found |-> TRUE, value |-> ScoreBound(5)]}}

InitPage ==
  /\ schema = {"a"}
  /\ nextId = 2
  /\ rows = [i \in Ids |->
               IF i = "1" THEN RowWithTimestamp([k \in {"a"} |-> "v"], TimeStr(MaxTime))
               ELSE IF i = "2" THEN RowWithTimestamp([k \in {"a"} |-> "w"], TimeStr(MaxTime))
               ELSE EmptyHash]
  /\ rowsSet = {"1", "2"}
  /\ index = [k \in Fields \X Vals |-> IF k = IndexKey("a", "v") THEN {"1"}
                                       ELSE IF k = IndexKey("a", "w") THEN {"2"} ELSE {}]
  /\ zset = NoScores /\ zlast = NoCall /\ zbase = NoScores /\ zsum = NoScores
  /\ tsorted = [i \in {"1", "2"} |-> IF i = "1" THEN 5 ELSE 1]
  /\ sessions = [i \in SessIds |-> NoSession]
  /\ sessLog = [i \in SessIds |-> NoLog]
  /\ InitCallers
  /\ pre = Store
  /\ retLog = << <<"ins", "1">>, <<"ins", "2">> >>
  /\ now = MaxTime
  /\ active = {1}
  /\ conn = [c \in Callers |-> c]
  /\ budget = MaxOps

NextPage ==
  \/ \E c \in Callers, options \in PageQueries : GrRange(c, options)
  \/ \E c \in Callers : GrFetch(c)

SpecPage == InitPage /\ [][NextPage]_vars

\* Concurrent createUser calls on an empty users table, each caller with an
\* adapter of its own.
InitUsers ==
  /\ schema = {EmailField, PasswordField}
  /\ now = 0
  /\ InitCommon
  /\ active = Callers
  /\ conn = [c \in Callers |-> c]
  /\ budget = MaxOpsConc

NextUsers ==
  \/ \E c \in Callers, email \in Emails : CuSmembers(c, email)
  \/ \E c \in Callers : CuFetch(c)
  \/ \E c \in Callers : CuInsert(c)
  \/ InsSteps

SpecUsers == InitUsers /\ [][NextUsers]_vars

\* dropTable next to concurrent inserts, on a created table with one row; the
\* callers have an adapter each.
InitDropIns ==
  /\ InitUpdCommon
  /\ sessions = [i \in SessIds |-> NoSession]
  /\ sessLog = [i \in SessIds |-> NoLog]
  /\ conn = [c \in Callers |-> c]
  /\ budget = MaxOpsConc

NextDropIns ==
  \/ \E c \in Callers, row \in ConcRows : InsExists(c, row)
  \/ InsSteps
  \/ DropSteps

SpecDropIns == InitDropIns /\ [][NextDropIns]_vars
\* ------------------------------------------------------------------ claims
Quiescent == \A c \in Callers : pc[c] = "idle"
RowExists(id) == id \in rowsSet /\ Found(id)
Returned(c, kind) == pc[c] = "idle" /\ op[c].kind = kind
InsertErrors == {"err_no_schema", "err_missing_field", "err_extra_field"}
IndexedAt(id, f) == {v \in Vals : id \in index[IndexKey(f, v)]}

\* C1: with no call in flight, for every schema field f, value v and id, id is
\* in the index set (f, v) iff the row id exists and its value of f is v.
C1_IndexMirrorsRows ==
  Quiescent =>
    \A f \in schema, v \in Vals, id \in Ids :
      id \in index[IndexKey(f, v)]
        <=> (RowExists(id) /\ f \in DOMAIN rows[id] /\ rows[id][f] = v)

\* C2: when update(id, {f: v2}) has returned true on a row whose value of f
\* was v1 # v2, id is out of index (f, v1) and in index (f, v2), and
\* countByField of both values shows the move.
C2_UpdateMovesIndex ==
  \A c \in active :
    (Returned(c, "update") /\ ret[c] = "true") =>
      \A f \in DOMAIN op[c].rec \cap DOMAIN pre.rows[op[c].id] :
        LET id == op[c].id
            v1 == pre.rows[id][f]
            v2 == op[c].rec[f]
        IN v1 # v2 =>
             /\ id \notin index[IndexKey(f, v1)]
             /\ id \in index[IndexKey(f, v2)]
             /\ CountByField(f, v1) = Cardinality(pre.index[IndexKey(f, v1)] \ {id})
             /\ CountByField(f, v2) = Cardinality(pre.index[IndexKey(f, v2)] \cup {id})

Committed(c) == pc[c] = "upd_index" \/ (pc[c] = "idle" /\ ret[c] = "true")

\* C3: of the updates that contend for a row, one commits and the others
\* are aborted: an update whose row was written by another caller after its
\* watch does not commit; and when all updates of the row have returned the
\* row holds every value written by one of them.
C3_OneWinnerPerCycle ==
  [][/\ \A c \in Callers :
          (/\ pc[c] = "upd_exec" /\ stale[c]
           /\ \A d \in Callers \ {c} : /\ op[d].kind = "update" /\ op[d].id = op[c].id
                                        /\ op[d].rec # op[c].rec)
          => ~Committed(c)'
     /\ (Quiescent /\ \A c \in Callers : op[c].kind = "update" /\ ret[c] = "true"
                                         /\ op[c].id = op[1].id)
          => \E c \in Callers : \A f \in DOMAIN op[c].rec :
                f \in DOMAIN rows[op[c].id] /\ rows[op[c].id][f] = op[c].rec[f]
    ]_vars

\* C4: when all callers updated the same field f of the same row with
\* different values and every call has returned, the id is in exactly one
\* index set of f: the one of the value the row holds.
C4_ConcurrentUpdatesIndex ==
  \A f \in Fields, id \in Ids :
    (/\ Quiescent
     /\ \A c \in Callers : /\ op[c].kind = "update" /\ ret[c] = "true"
                           /\ op[c].id = id /\ f \in DOMAIN op[c].rec
     /\ \A c, d \in Callers : c # d => op[c].rec[f] # op[d].rec[f]
     /\ f \in DOMAIN rows[id])
    => IndexedAt(id, f) = {rows[id][f]}

\* C5: when delete(id) has returned true, getById(id) is not found, id is not
\* among the ids of getAll, and id is in no field-value index set.
C5_DeleteRemovesAll ==
  \A c \in active :
    (Returned(c, "delete") /\ ret[c] = "true") =>
      /\ ~Found(op[c].id)
      /\ op[c].id \notin GetAllIds
      /\ \A f \in Fields : IndexedAt(op[c].id, f) = {}

\* C6: with no call in flight, an id is in the membership set iff its row
\* hash exists.
C6_MembershipMatchesRows ==
  Quiescent => \A id \in Ids : id \in rowsSet <=> Found(id)

\* C7: with no call in flight, the field names of every existing row are
\* exactly the schema fields plus _created_at and _updated_at.
C7_RowFieldsAreSchema ==
  Quiescent => \A id \in Ids : Found(id) => DOMAIN rows[id] = schema \cup SysFields

InFlightId(id) ==
  \E c \in Callers : pc[c] \in {"ins_hmset", "ins_sadd", "ins_index"} /\ loc[c].rowId = id
Logged(kind, id) == \E i \in 1..Len(retLog) : retLog[i] = <<kind, id>>

\* C8: when insert(record) has returned id, getById(id) has exactly the
\* record's fields (the schema fields) with the record's values, plus
\* _created_at and _updated_at, both the insertion time; getById of an id
\* that no insert produced is not found.
C8_InsertThenGetById ==
  /\ \A c \in active :
       (Returned(c, "insert") /\ ret[c] \in Ids) =>
         LET r == GetById(ret[c]) IN
         /\ DOMAIN op[c].rec = schema
         /\ DOMAIN r = DOMAIN op[c].rec \cup SysFields
         /\ \A f \in DOMAIN op[c].rec : r[f] = op[c].rec[f]
         /\ r["_created_at"] = TimeStr(now)
         /\ r["_updated_at"] = TimeStr(now)
  /\ \A id \in Ids : (~Logged("ins", id) /\ ~InFlightId(id)) => ~Found(id)

C8_Witness ==
  \E c \in active :
    /\ Returned(c, "insert") /\ ret[c] \in Ids
    /\ schema = {"a", "b"} /\ op[c].rec["a"] = "" /\ now > 0
    /\ \E id \in Ids : ~Found(id)

\* C9: the ids returned by insert are pairwise distinct, and an insert
\* returns an id larger than every id that was returned or deleted before
\* the insert started.
C9_IdsIncrease ==
  /\ \A i, j \in 1..Len(retLog) :
       (i # j /\ retLog[i][1] = "ins" /\ retLog[j][1] = "ins") => retLog[i][2] # retLog[j][2]
  /\ \A c \in Callers :
       (Returned(c, "insert") /\ ret[c] \notin InsertErrors) =>
         /\ ret[c] \in Ids
         /\ IdNum(ret[c]) > loc[c].floor

C9_Witness ==
  \E c, d \in Callers :
    /\ c # d
    /\ Returned(c, "insert") /\ ret[c] \in Ids /\ loc[c].floor > 0
    /\ Returned(d, "insert") /\ ret[d] \in Ids
    /\ \E id \in Ids : Logged("del", id)

\* C10: an insert that fails validation (no schema, a missing schema field,
\* a non-schema field) returns an error, and when it has returned the row
\* hashes, membership set, indexes and id counter are as when it started.
C10_FailedInsertNoChange ==
  \A c \in active :
    Returned(c, "insert") =>
      /\ (pre.schema = {} \/ DOMAIN op[c].rec # pre.schema) => ret[c] \in InsertErrors
      /\ ret[c] \in InsertErrors => Store = pre

C10_Witness ==
  \E c \in active :
    /\ Returned(c, "insert") /\ ret[c] = "err_extra_field"
    /\ rowsSet # {} /\ nextId > 0

\* C11: update and delete of an id that has no row return false and leave the
\* row hashes, membership set, indexes, counter and schema as they were;
\* update of an id that has a row returns true, whatever the values given.
C11_NotFoundIsFalse ==
  \A c \in active :
    (Returned(c, "update") \/ Returned(c, "delete")) =>
      LET had == DOMAIN pre.rows[op[c].id] # {} IN
      /\ ~had => (ret[c] = "false" /\ Store = pre)
      /\ (had /\ op[c].kind = "update") => ret[c] = "true"
      /\ ret[c] \in {"true", "false"}

C11_Witness ==
  \E c \in active :
    /\ Returned(c, "update") /\ ret[c] = "false"
    /\ op[c].rec # EmptyHash /\ rowsSet # {}

\* update of an existing row with the values it already holds returns true
C11_SameValuesWitness ==
  \E c \in active :
    /\ Returned(c, "update") /\ ret[c] = "true" /\ op[c].rec # EmptyHash
    /\ \A f \in DOMAIN op[c].rec :
         f \in DOMAIN pre.rows[op[c].id] /\ pre.rows[op[c].id][f] = op[c].rec[f]

InAttempt(c) ==
  pc[c] \in {"upd_watch", "upd_exists", "upd_hgetall", "upd_exec",
             "del_watch", "del_hgetall", "del_exec", "rs_watch", "rs_get", "rs_exec"}
AfterCommit(c) ==
  pc[c] \in {"upd_index", "del_index"} \/ (pc[c] = "idle" /\ ret[c] = "true")
StepOf(c) == pc'[c] # pc[c] \/ loc'[c] # loc[c] \/ op'[c] # op[c]
AllKeys == <<storeVars, sessions>>

\* C12: an update, delete or refreshSession call is in its 1st..5th attempt
\* while it runs; its attempt count grows only when its EXEC is aborted, and
\* that step changes no key; it returns the concurrency error exactly when
\* the count has reached 5; and a call that wrote a row hash, the membership
\* set, an index or a session is past its commit, from where it only
\* returns true.
C12_RetryBound ==
  [][\A c \in Callers :
       /\ InAttempt(c)' => loc'[c].attempt < maxRetries
       /\ loc'[c].attempt # loc[c].attempt =>
            \/ /\ pc[c] = "idle" /\ loc'[c].attempt = 0
            \/ /\ pc[c] \in {"upd_exec", "del_exec", "rs_exec"} /\ ExecAborted(c)
               /\ loc'[c].attempt = loc[c].attempt + 1
               /\ AllKeys' = AllKeys
       /\ (pc'[c] = "idle" /\ op'[c].kind \in {"update", "delete", "refreshSession"}) =>
            (ret'[c] = "err_max_retries" <=> loc'[c].attempt = maxRetries)
       /\ (StepOf(c) /\ AllKeys' # AllKeys) => AfterCommit(c)'
       /\ pc[c] \in {"upd_index", "del_index"} => AfterCommit(c)'
    ]_vars

C12_Witness ==
  \E c \in Callers :
    /\ pc[c] = "idle" /\ op[c].kind = "delete" /\ ret[c] = "err_max_retries"
    /\ loc[c].attempt = maxRetries /\ Found(op[c].id)

C12_UpdateWitness ==
  \E c \in Callers :
    /\ pc[c] = "idle" /\ op[c].kind = "update" /\ ret[c] = "err_max_retries"

C12_RefreshWitness ==
  \E c \in Callers :
    /\ pc[c] = "idle" /\ op[c].kind = "refreshSession" /\ ret[c] = "err_max_retries"

DelCommitted(c) == pc[c] = "del_index" \/ (pc[c] = "idle" /\ ret[c] = "true")

\* C13: the EXEC of an update or delete commits only when no other caller
\* wrote the row since the attempt's WATCH; so at a commit the data the
\* attempt read (from which the index removals are taken) is the row as it
\* is just before the commit.
C13_CommitOnlyIfUnmodified ==
  [][\A c \in Callers :
       /\ (pc[c] = "upd_exec" /\ Committed(c)') =>
            /\ ~stale[c]
            /\ \A f \in DOMAIN op[c].rec \cap DOMAIN rows[op[c].id] :
                 f \in DOMAIN loc[c].data /\ loc[c].data[f] = rows[op[c].id][f]
       /\ (pc[c] = "del_exec" /\ DelCommitted(c)') =>
            /\ ~stale[c]
            /\ loc[c].data = rows[op[c].id]
    ]_vars

CreateSucceeds(c) == pc[c] = "ct_sadd" /\ pc'[c] = "idle" /\ ret'[c] = "ok"
OtherFieldLists(c) ==
  \A d \in Callers \ {c} : op[d].kind = "createTable" => op[d].fields # op[c].fields

\* C14: a createTable call, the other callers' createTable calls being of
\* different field lists, succeeds only on a table that has no schema at
\* that moment (so of overlapping calls at most one succeeds), and leaves the
\* schema equal to its own field list; the schema changes only when a
\* createTable succeeds or a dropTable deletes it.
C14_OneCreateWins ==
  [][/\ \A c \in Callers :
          (CreateSucceeds(c) /\ OtherFieldLists(c)) =>
            (schema = {} /\ schema' = op[c].fields)
     /\ schema' # schema =>
          \E c \in Callers : CreateSucceeds(c) \/ (pc[c] = "dt_pipe" /\ StepOf(c))
    ]_vars

\* C15: when createTable(fields) has returned: it failed with the
\* schema-exists error if a schema was stored when it was called, and with
\* the empty-schema error if there was none and fields is empty, and in both
\* cases every key is as before the call; otherwise it succeeded and the
\* stored schema is exactly fields, every other key being as before.
C15_CreateTableOutcome ==
  \A c \in active :
    Returned(c, "createTable") =>
      /\ pre.schema # {} => (ret[c] = "err_schema_exists" /\ Store = pre)
      /\ (pre.schema = {} /\ op[c].fields = {}) =>
           (ret[c] = "err_empty_schema" /\ Store = pre)
      /\ (pre.schema = {} /\ op[c].fields # {}) =>
           (ret[c] = "ok" /\ Store = [pre EXCEPT !.schema = op[c].fields])

C15_Witness ==
  \E c \in active :
    /\ Returned(c, "createTable") /\ ret[c] = "err_schema_exists"
    /\ op[c].fields # {} /\ op[c].fields # schema /\ rowsSet # {}

C15_CreatedWitness ==
  \E c \in active :
    /\ Returned(c, "createTable") /\ ret[c] = "ok" /\ schema = {"a", "b"}

\* C16: when dropTable has returned in a sequential run: tableExists is
\* false, no row hash remains, the membership set and the id counter are
\* gone, and findByField is empty for every field and value.
C16_DropLeavesNothing ==
  \A c \in active :
    Returned(c, "dropTable") =>
      /\ ~TableExists
      /\ \A id \in Ids : ~Found(id)
      /\ rowsSet = {}
      /\ nextId = 0
      /\ \A f \in Fields, v \in Vals : FindByFieldIds(f, v) = {}

\* C17: when update(id, partialRecord) has returned true in a sequential
\* run, row id has the given values in the given fields, and apart from
\* those fields and _updated_at it is as before the call (_created_at
\* included); every other row, the membership set, the id counter, the
\* schema and the index sets of the fields not given are as before the call.
C17_UpdateFrame ==
  \A c \in active :
    (Returned(c, "update") /\ ret[c] = "true") =>
      LET id == op[c].id
          named == DOMAIN op[c].rec \cup {"_updated_at"}
      IN /\ DOMAIN rows[id] = DOMAIN pre.rows[id] \cup named
         /\ \A f \in DOMAIN op[c].rec : rows[id][f] = op[c].rec[f]
         /\ \A f \in DOMAIN pre.rows[id] \ named : rows[id][f] = pre.rows[id][f]
         /\ \A j \in Ids \ {id} : rows[j] = pre.rows[j]
         /\ rowsSet = pre.rowsSet /\ nextId = pre.nextId /\ schema = pre.schema
         /\ \A f \in Fields \ DOMAIN op[c].rec, v \in Vals :
              index[IndexKey(f, v)] = pre.index[IndexKey(f, v)]

C17_Witness ==
  \E c \in active :
    /\ Returned(c, "update") /\ ret[c] = "true"
    /\ DOMAIN op[c].rec = {"a"} /\ schema = {"a", "b"}
    /\ rows[op[c].id]["a"] # pre.rows[op[c].id]["a"]
    /\ rows[op[c].id]["_updated_at"] # rows[op[c].id]["_created_at"]
    /\ Cardinality(rowsSet) = 2

SortedCall(kind) == budget' # budget /\ zlast'.kind = kind

\* C18: after addToSortedSet(key, score, member): getSortedSetScore of the
\* member is score; the cardinality grew by one if the member was absent and
\* did not change if it was present; the same add again changes nothing;
\* and getSortedSetByScore(key, '-inf', '+inf', {withScores: true}) has
\* exactly one entry for the member, carrying score.
C18_AddIsUpsert ==
  [][SortedCall("add") =>
       LET member == zlast'.member
           score == zlast'.arg
           entries == GetSortedSetByScore(zset', MinusInf, PlusInf,
                                          RangeOptions(TRUE, NotFound, NotFound))
       IN /\ GetSortedSetScore(zset', member) = Value(score)
          /\ CountSortedSet(zset') =
               CountSortedSet(zset) + (IF member \in DOMAIN zset THEN 0 ELSE 1)
          /\ zlast'.result = CountSortedSet(zset') - CountSortedSet(zset)
          /\ Zadd(zset', score, member) = zset'
          /\ Cardinality({i \in 1..Len(entries) : entries[i].member = member}) = 1
          /\ \A i \in 1..Len(entries) :
               entries[i].member = member => entries[i].score = score
    ]_vars

C18_Witness ==
  /\ zlast.kind = "add" /\ zlast.result = 0
  /\ zlast.member \in DOMAIN zset /\ zset[zlast.member] = zlast.arg
  /\ zbase[zlast.member] + zsum[zlast.member] = zlast.arg
  /\ CountSortedSet(zset) = 2

\* C19: for every member present in the sorted set, getSortedSetRank plus
\* getSortedSetRankReverse is countSortedSet - 1, members of equal score
\* included; for a member that is absent both ranks are not found.
C19_RanksSum ==
  \A member \in Members :
    LET rank == GetSortedSetRank(zset, member)
        reverse == GetSortedSetRankReverse(zset, member)
    IN IF member \in DOMAIN zset
       THEN /\ rank.found /\ reverse.found
            /\ rank.value + reverse.value = CountSortedSet(zset) - 1
       ELSE rank = NotFound /\ reverse = NotFound

C19_Witness ==
  /\ CountSortedSet(zset) = 3
  /\ \E a, b \in DOMAIN zset : a # b /\ zset[a] = zset[b]
  /\ GetSortedSetRank(zset, "m3").value = 0

\* C20: incrementSortedSetScore returns the member's score before the call
\* (0 for an absent member) plus the increment, and that is the member's
\* score after the call; so the score of every member is the score of its
\* last add plus the sum of all increments made since, in whatever order
\* the callers' increments were served.
C20_IncrementAtomic ==
  [][/\ SortedCall("incr") =>
          LET member == zlast'.member
              before == IF member \in DOMAIN zset THEN zset[member] ELSE 0
          IN /\ zlast'.result = before + zlast'.arg
             /\ GetSortedSetScore(zset', member) = Value(zlast'.result)
     /\ DOMAIN zset' = DOMAIN zbase'
     /\ \A member \in DOMAIN zset' : zset'[member] = zbase'[member] + zsum'[member]
    ]_vars

C20_Witness ==
  /\ zlast.kind = "incr" /\ zlast.member \in DOMAIN zset
  /\ zbase[zlast.member] = 5 /\ zsum[zlast.member] = 6
  /\ zlast.result = 11 /\ zset[zlast.member] = 11

C20_EightWitness ==
  /\ zlast.kind = "incr" /\ zlast.arg = 3 /\ zlast.result = 8
  /\ zbase[zlast.member] = 5

\* C21: getSortedSetByRank(key, start, stop) returns the members at the
\* zero-based positions start..stop, both included, of the ascending (score,
\* member) order, a negative index counting from the end;
\* getSortedSetByRankReverse returns the positions start..stop of the exact
\* reverse of that order, so (0, 0) yields a member of the highest score and
\* the full reverse range is the full forward range reversed.
Reversed(s) == [i \in 1..Len(s) |-> s[Len(s) + 1 - i]]
MemberOf(entry, withScores) == IF withScores THEN entry.member ELSE entry
PositionsOf(n, start, stop) ==
  {p \in 0..(n - 1) : (IF start < 0 THEN n + start ELSE start) <= p
                      /\ p <= (IF stop < 0 THEN n + stop ELSE stop)}
RankCall == zlast.kind \in {"byRank", "byRankReverse"}
C21_RankRange ==
  RankCall =>
    LET start == zlast.arg[1]
        stop == zlast.arg[2]
        withScores == zlast.arg[3]
        order == IF zlast.kind = "byRank" THEN Zrange(zset) ELSE Reversed(Zrange(zset))
        P == PositionsOf(Len(order), start, stop)
        result == zlast.result
    IN /\ Len(result) = Cardinality(P)
       /\ \A i \in 1..Len(result) :
            /\ MemberOf(result[i], withScores) = order[MinOf(P) + i]
            /\ withScores => result[i].score = zset[result[i].member]
       /\ (zlast.kind = "byRankReverse" /\ start = 0 /\ stop = 0 /\ DOMAIN zset # {})
            => /\ Len(result) = 1
               /\ \A m \in DOMAIN zset : zset[m] <= zset[MemberOf(result[1], withScores)]
\* a reverse read with a negative start over three members, two of them tied
C21_Witness ==
  /\ zlast.kind = "byRankReverse"
  /\ zlast.arg = <<-2, -1, FALSE>>
  /\ Zcard(zset) = 3
  /\ zset["m1"] = zset["m2"]
  /\ zlast.result = <<"m2", "m1">>
\* a forward read whose stop lies beyond the last member
C21_ForwardWitness ==
  /\ zlast.kind = "byRank"
  /\ zlast.arg = <<1, 3, TRUE>>
  /\ Zcard(zset) = 3
  /\ Len(zlast.result) = 2

\* C22: getSortedSetByScore(key, min, max, {limit, offset}) returns, in
\* ascending order, the members whose score s has min <= s <= max ('-inf' and
\* '+inf' leaving a side open), after skipping the first offset of them and
\* keeping at most limit; the range is filtered before limit and offset are
\* applied, so the pages at offsets 0, limit, 2*limit, ... hold every member
\* of the range exactly once.
InScoreRange(z, min, max) == {m \in DOMAIN z : AtLeast(z[m], min) /\ AtMost(z[m], max)}
RankWithin(z, S, m) == Cardinality({x \in S : Before(z, x, m)})
C22_ScorePage ==
  zlast.kind = "byScore" =>
    LET min == zlast.arg[1]
        max == zlast.arg[2]
        options == zlast.arg[3]
        result == zlast.result
        range == InScoreRange(zset, min, max)
        paged == options.limit.found /\ options.offset.found
        unpaged == ~options.limit.found /\ ~options.offset.found
        lo == IF paged THEN options.offset.value ELSE 0
        hi == IF paged THEN lo + options.limit.value ELSE Cardinality(range)
        page == {m \in range : lo <= RankWithin(zset, range, m)
                               /\ RankWithin(zset, range, m) < hi}
        PageAt(k) ==
          GetSortedSetByScore(zset, min, max,
            RangeOptions(FALSE, options.limit, Defined(k * options.limit.value)))
    IN /\ (paged \/ unpaged) =>
            /\ Len(result) = Cardinality(page)
            /\ \A i \in 1..Len(result) :
                 LET m == MemberOf(result[i], options.withScores) IN
                 /\ m \in page
                 /\ RankWithin(zset, range, m) = lo + i - 1
                 /\ options.withScores => result[i].score = zset[m]
       /\ (paged /\ options.limit.value >= 1) =>
            \A m \in DOMAIN zset :
              Cardinality({e \in (0..Cardinality(range)) \X (1..options.limit.value) :
                             /\ e[2] <= Len(PageAt(e[1]))
                             /\ PageAt(e[1])[e[2]] = m})
                = (IF m \in range THEN 1 ELSE 0)
\* the second page of two, over three members in the range
C22_Witness ==
  /\ zlast.kind = "byScore"
  /\ zlast.arg = <<ScoreBound(1), PlusInf, RangeOptions(FALSE, Defined(2), Defined(2))>>
  /\ Zcard(zset) = 3
  /\ zlast.result = <<"m3">>
\* a page that starts after a member below the range
C22_FilterFirstWitness ==
  /\ zlast.kind = "byScore"
  /\ zlast.arg = <<ScoreBound(5), ScoreBound(5), RangeOptions(TRUE, Defined(2), Defined(0))>>
  /\ Zcard(zset) = 3 /\ zset["m1"] = 1
  /\ Len(zlast.result) = 2 /\ zlast.result[1].member = "m2"

\* C25: removeFromSortedSetByScore(key, min, max),
\* removeFromSortedSetByRank(key, start, stop) and removeFromSortedSet(key,
\* members...) remove exactly the members of the range or list that are
\* present, return how many they removed, and leave every other member and
\* its score as they were; after removeFromSortedSetByScore(key, '-inf', x) no
\* member of score <= x is left.
Removed ==
  IF zlast'.kind = "remByScore"
    THEN {m \in DOMAIN zset : AtLeast(zset[m], zlast'.arg[1]) /\ AtMost(zset[m], zlast'.arg[2])}
  ELSE IF zlast'.kind = "remByRank"
    THEN {m \in DOMAIN zset :
            GetSortedSetRank(zset, m).value
              \in PositionsOf(Zcard(zset), zlast'.arg[1], zlast'.arg[2])}
  ELSE zlast'.arg \cap DOMAIN zset
C25_RemoveExactly ==
  [][(budget' # budget /\ zlast'.kind \in {"remByScore", "remByRank", "remMembers"}) =>
       /\ DOMAIN zset' = DOMAIN zset \ Removed
       /\ \A m \in DOMAIN zset' : zset'[m] = zset[m]
       /\ zlast'.result = Cardinality(Removed)
       /\ (zlast'.kind = "remByScore" /\ zlast'.arg[1] = MinusInf /\ zlast'.arg[2].kind = "num")
            => \A m \in DOMAIN zset' : zset'[m] > zlast'.arg[2].n
    ]_vars
\* removing the scores up to 1 took one member of three and kept the others
C25_Witness ==
  /\ zlast.kind = "remByScore"
  /\ zlast.arg = <<MinusInf, ScoreBound(1)>>
  /\ zlast.result = 1
  /\ Zcard(zset) = 2
\* a removal by rank took the two highest of three
C25_RankWitness ==
  /\ zlast.kind = "remByRank" /\ zlast.arg = <<-2, -1>>
  /\ zlast.result = 2 /\ Zcard(zset) = 1
\* a removal by list met one absent member
C25_ListWitness ==
  /\ zlast.kind = "remMembers" /\ zlast.arg = {"m1", "m2"}
  /\ zlast.result = 1 /\ Zcard(zset) = 1

\* C23: getRowsBySortedField(table, field, options) returns, in the order of
\* the index page, one entry per page member whose row exists when it is
\* fetched, with the row's data of that moment and the member's index score; a
\* member whose row was deleted, before the call or between the index read and
\* the row fetch, yields no entry, and never an entry with empty data.
OutIds(c) == {loc[c].out[i].id : i \in 1..Len(loc[c].out)}
C23_JoinSkipsDeleted ==
  /\ [](\A c \in Callers : \A i \in 1..Len(loc[c].out) : loc[c].out[i].data # EmptyHash)
  /\ [][\A c \in Callers :
          /\ (op'[c] # op[c] /\ op'[c].kind = "getRowsBySortedField") =>
               /\ loc'[c].out = <<>>
               /\ \A i \in 1..Len(loc'[c].page) :
                    /\ loc'[c].page[i].member \in DOMAIN tsorted
                    /\ loc'[c].page[i].score = tsorted[loc'[c].page[i].member]
          /\ (pc[c] = "gr_fetch" /\ loc'[c] # loc[c]) =>
               LET e == loc[c].page[loc[c].at + 1] IN
               /\ loc'[c].page = loc[c].page
               /\ loc'[c].out =
                    IF rows[e.member] # EmptyHash
                    THEN Append(loc[c].out, [id |-> e.member, data |-> rows[e.member],
                                             score |-> e.score])
                    ELSE loc[c].out
    ]_vars
\* a row of the page was deleted between the index read and its fetch
C23_Witness ==
  \E c \in Callers :
    /\ Returned(c, "getRowsBySortedField")
    /\ Len(loc[c].page) = 2
    /\ Len(loc[c].out) = 1
    /\ loc[c].liveAtRead \ OutIds(c) # {}
\* a row of the page was deleted before the call
C23_DeletedBeforeWitness ==
  \E c \in Callers :
    /\ Returned(c, "getRowsBySortedField")
    /\ Len(loc[c].page) = 2
    /\ Cardinality(loc[c].liveAtRead) = 1
    /\ OutIds(c) = loc[c].liveAtRead

\* C24: no Row Store mutation (insert, update, delete, dropTable) adds,
\* removes or rescores a member of a sorted index, table-bound or standalone;
\* a sorted index changes only through the sorted-set operations,
\* createSortedIndex and updateSortedIndex.
RowStoreOps == {"insert", "update", "delete", "dropTable"}
SortedIndexOps == {"createSortedIndex", "updateSortedIndex"}
C24_RowStoreLeavesSortedIndexes ==
  [][/\ \A c \in active :
          (op'[c].kind \in RowStoreOps /\ zlast' = zlast)
            => (tsorted' = tsorted /\ zset' = zset)
     /\ tsorted' # tsorted => \E c \in active : op'[c].kind \in SortedIndexOps
     /\ zset' # zset => zlast' # zlast
    ]_vars
\* dropTable has removed a table with rows and left the table's sorted index
C24_Witness ==
  /\ Returned(1, "dropTable")
  /\ pre.rowsSet # {}
  /\ rowsSet = {} /\ schema = {}
  /\ tsorted # NoScores
\* delete has removed a row whose id is still a member of the sorted index
C24_DeleteWitness ==
  /\ Returned(1, "delete") /\ ret[1] = "true"
  /\ op[1].id \in DOMAIN tsorted
  /\ ~Found(op[1].id)

\* C26: after createSession(subject, ttl) has returned id s, getSession(s)
\* returns subject at every time before the lifetime last given to s (by the
\* create, or by a refresh) has elapsed, unless s was deleted, and not found at
\* every time from then on; after deleteSession(s) has returned true,
\* getSession(s) returns not found.
CallOf(c, kind) == op'[c] # op[c] /\ op'[c].kind = kind
C26_SessionLifetime ==
  [][\A c \in Callers :
       /\ CallOf(c, "createSession") =>
            /\ ret'[c] \in SessIds
            /\ sessLog[ret'[c]].state = "none"
            /\ sessLog'[ret'[c]] = LogSet(op'[c].userId, now, op'[c].ttl)
       /\ CallOf(c, "getSession") =>
            LET log == sessLog[op'[c].id] IN
            /\ (log.state = "set" /\ now < log.setAt + log.ttl) => ret'[c] = log.subject
            /\ (log.state = "set" /\ now >= log.setAt + log.ttl) => ret'[c] = "null"
            /\ log.state = "deleted" => ret'[c] = "null"
       /\ \A s \in SessIds :
            (sessLog'[s] # sessLog[s] /\ sessLog'[s].state = "deleted")
              => \E d \in Callers : op'[d].kind = "deleteSession" /\ ret'[d] = "true"
    ]_vars
\* a read after the lifetime has elapsed finds nothing
C26_Witness ==
  \E c \in Callers :
    /\ Returned(c, "getSession") /\ ret[c] = "null"
    /\ sessLog[op[c].id].state = "set"
    /\ now = sessLog[op[c].id].setAt + sessLog[op[c].id].ttl
\* a read within the lifetime returns the subject
C26_LiveWitness ==
  \E c \in Callers :
    /\ Returned(c, "getSession") /\ ret[c] = "u1"
    /\ now = sessLog[op[c].id].setAt + sessLog[op[c].id].ttl - 1
\* a read after a delete finds nothing
C26_DeletedWitness ==
  \E c, d \in Callers :
    /\ Returned(c, "getSession") /\ ret[c] = "null"
    /\ Returned(d, "deleteSession") /\ ret[d] = "true"
    /\ sessLog[op[c].id].state = "deleted"

\* C27: refreshSession(id, ttl) on an existing session rewrites it with the
\* same subject and a new expiry and returns true; on an absent or expired
\* session it returns false and creates nothing. Under every interleaving
\* with deleteSession(id) a refresh never changes the stored subject, and a
\* delete that lands between an attempt's watch and its commit aborts the
\* attempt, so a refresh never re-creates the deleted session.
Existing(s) == sessLog[s].state = "set" /\ now < sessLog[s].setAt + sessLog[s].ttl
RefreshCommits(c) == pc[c] = "rs_exec" /\ pc'[c] = "idle" /\ ret'[c] = "true"
C27_RefreshKeepsSession ==
  [][\A c \in Callers :
       /\ (pc[c] = "rs_get" /\ pc'[c] # "rs_get") =>
            IF Existing(op[c].id)
            THEN pc'[c] = "rs_exec"
            ELSE pc'[c] = "idle" /\ ret'[c] = "false" /\ sessions' = sessions
       /\ RefreshCommits(c) =>
            /\ sessLog[op[c].id].state = "set"
            /\ sessions'[op[c].id] = [userId |-> sessLog[op[c].id].subject,
                                      expiresAt |-> now + op[c].ttl]
       /\ (pc[c] \in {"rs_watch", "rs_get", "rs_exec"} /\ StepOf(c) /\ sessions' # sessions)
            => RefreshCommits(c)
    ]_vars

\* C28: when a store operation raises during an attempt of update, delete or
\* refreshSession, the call releases its watch before the error reaches the
\* caller, the error that reaches the caller is the original one, and in no
\* terminal state (success, not found, exhausted, error) does a watch of the
\* call remain.
WatchingCalls == {"update", "delete", "refreshSession"}
C28_ErrorReleasesWatch ==
  /\ [](\A c \in Callers :
          (pc[c] = "idle" /\ op[c].kind \in WatchingCalls) => watching[conn[c]] = {})
  /\ [][\A c \in Callers :
          (pc[c] = "catch" /\ pc'[c] = "idle") =>
            (ret'[c] = "err_store" /\ watching'[conn[c]] = {})
    ]_vars

\* C29: two callers concurrently update two different rows, moving both into
\* the same (field, value) index set, or one into it and one out of it: when
\* both have returned, each row id is in exactly the index set of its own
\* current value, however the set adds and removes interleave.
UpdatedRows ==
  /\ Quiescent
  /\ \A c \in Callers : op[c].kind = "update" /\ ret[c] = "true" /\ DOMAIN op[c].rec = {"a"}
  /\ \A c, d \in Callers : c # d => op[c].id # op[d].id
C29_TwoRowsOneIndexSet ==
  UpdatedRows =>
    \A c \in Callers : IndexedAt(op[c].id, "a") = {rows[op[c].id]["a"]}

\* C30: in a newly created table (never used before, created after a
\* dropTable, or after initNextId) the k-th successful insert returns the
\* base-10 string of k; failed inserts and deletes neither use up ids nor
\* give them back.  LastNew is the position in the history of the last moment
\* the table became new (0: the start of the run).
LastNew == MaxOf({i \in 1..Len(retLog) : retLog[i][1] = "new"})
InsertsSinceNew == Cardinality({i \in (LastNew + 1)..Len(retLog) : retLog[i][1] = "ins"})
InsertReturns(id) == retLog' = Append(retLog, <<"ins", id>>)
C30_KthInsertReturnsK ==
  [][\A id \in Ids : InsertReturns(id) => id = ToString(InsertsSinceNew + 1)]_vars

\* the first insert after dropTable and createTable on a used table returned "1"
C30_Witness ==
  \E i \in 2..Len(retLog) :
    /\ retLog[i] = <<"ins", "1">>
    /\ retLog[i - 1] = <<"new", "0">>
    /\ retLog[1] = <<"ins", "1">>
    /\ \E c \in Callers : op[c].kind = "insert" /\ ret[c] = "1"

\* the second insert returned "2" after a delete of row "1" committed
C30_DeleteWitness ==
  \E i \in 2..Len(retLog) :
    /\ retLog[i] = <<"ins", "2">>
    /\ retLog[i - 1] = <<"del", "1">>

\* an insert failed validation after the insert that returned "1": the counter
\* is still 1
C30_FailedInsertWitness ==
  /\ retLog = << <<"ins", "1">> >>
  /\ nextId = 1
  /\ \E c \in Callers :
       /\ op[c].kind = "insert" /\ pc[c] = "idle"
       /\ ret[c] \notin Ids \cup {"none", "err_no_schema"}

\* initNextId on a used table: the next insert returned "1" again
C30_InitNextIdWitness ==
  /\ Len(retLog) = 3
  /\ retLog[1] = <<"ins", "1">>
  /\ retLog[2] = <<"new", "0">>
  /\ retLog[3] = <<"ins", "1">>
  /\ nextId = 1
  /\ schema # {}

\* C31: when every store command completes, every update, delete and
\* refreshSession call that was started returns: with true, with false (not
\* found) or with the retries-exhausted error; none blocks or retries forever.
TerminalOutcomes == {"true", "false", "err_max_retries"}
C31_CallsTerminate ==
  \A c \in Callers : (pc[c] # "idle") ~> (pc[c] = "idle" /\ ret[c] \in TerminalOutcomes)

\* a call gave up after maxRetries aborted attempts
C31_Witness ==
  \E c \in Callers :
    /\ pc[c] = "idle" /\ ret[c] = "err_max_retries"
    /\ loc[c].attempt = maxRetries

\* a delete was aborted, tried again and committed
C31_RetriedWitness ==
  \E c \in Callers :
    /\ pc[c] = "idle" /\ ret[c] = "true" /\ op[c].kind = "delete"
    /\ loc[c].attempt > 0

\* C32: within one update or delete call every change of an index set comes
\* after that call's EXEC has committed its row write; an attempt whose EXEC
\* was aborted and a call that returns false change no index set.
IndexStepOf(c) ==
  /\ pc[c] \in {"upd_index", "del_index"}
  /\ loc'[c].pipe = Tail(loc[c].pipe)
C32_IndexAfterCommit ==
  /\ [](\A c \in Callers :
          (pc[c] = "idle" /\ ret[c] \in {"false", "err_max_retries"}) => ~loc[c].committed)
  /\ [][/\ index' # index => \E c \in Callers : IndexStepOf(c) /\ loc[c].committed
        /\ \A c \in Callers :
             (~loc[c].committed /\ ~loc'[c].committed /\ pc[c] # "idle" /\ pc'[c] # pc[c])
               => index' = index
       ]_vars

\* an update whose first EXEC was aborted committed on a later attempt and
\* then moved the row's id from one index set to another
C32_Witness ==
  \E c \in Callers :
    /\ op[c].kind = "update" /\ pc[c] = "idle" /\ ret[c] = "true"
    /\ loc[c].attempt > 0 /\ loc[c].committed
    /\ op[c].id \in index[IndexKey("a", "w")]
    /\ op[c].id \notin index[IndexKey("a", "v")]

\* a delete that found no row returned false
C32_NotFoundWitness ==
  \E c \in Callers :
    /\ op[c].kind = "delete" /\ pc[c] = "idle" /\ ret[c] = "false"
    /\ op[c].id = "1"

\* C33: when at most maxRetries callers each issue one update of the same row
\* and nothing else writes it, no caller fails with the retries-exhausted
\* error: every aborted attempt of a caller is due to a commit of another
\* caller, a different one each time, so each caller commits within
\* maxRetries attempts.
CommittedOthers(c) == {d \in Crowd \ {c} : loc[d].committed}
C33_NoExhaustion ==
  \A c \in Crowd :
    /\ ret[c] # "err_max_retries"
    /\ loc[c].attempt <= Cardinality(CommittedOthers(c))
    /\ loc[c].attempt < maxRetries
    /\ (pc[c] = "idle" /\ op[c].kind = "update") => ret[c] = "true"

\* a caller committed on its last attempt, after every other caller had
\* aborted it once
C33_Witness ==
  \E c \in Crowd :
    /\ pc[c] = "idle" /\ ret[c] = "true"
    /\ loc[c].attempt = maxRetries - 1
    /\ \A d \in Crowd : pc[d] = "idle" /\ ret[d] = "true"

\* C34: when in-flight update, delete and refreshSession calls share one
\* adapter, an EXEC or UNWATCH of one call does not cancel the watch of
\* another: between its WATCH and its EXEC a call's key stays watched on its
\* connection, and when the row was written by another caller since the WATCH
\* the connection is marked, so that the EXEC will be aborted.
WatchedKey(c) ==
  IF pc[c] \in {"upd_exists", "upd_hgetall", "upd_exec", "del_hgetall", "del_exec"}
  THEN {RowKey(op[c].id)}
  ELSE IF pc[c] \in {"rs_get", "rs_exec"} THEN {SessionKey(op[c].id)}
  ELSE {}
C34_WatchSurvivesOthers ==
  \A c \in Callers :
    /\ WatchedKey(c) \subseteq watching[conn[c]]
    /\ (pc[c] \in {"upd_exec", "del_exec"} /\ stale[c]) => ExecAborted(c)

\* C35: in any sequence of calls on a table, initNextId among them, the HMSET
\* of an insert writes a row key that holds nothing and whose id is not in
\* the membership set: an insert never overwrites or merges into a live row.
InsertWrites(c) == pc[c] = "ins_hmset" /\ pc'[c] = "ins_sadd"
C35_InsertNeverOverwrites ==
  [][\A c \in Callers :
       InsertWrites(c) =>
         /\ loc[c].rowId \notin rowsSet
         /\ DOMAIN rows[loc[c].rowId] = {}
    ]_vars

\* C36: for an update and a delete of the same row id, in any interleaving:
\* once both have returned and the delete returned true, the id has no row
\* hash, is not in the membership set and is in no index set.
UpdateAndDelete(c, d) ==
  /\ pc[c] = "idle" /\ pc[d] = "idle"
  /\ op[c].kind = "delete" /\ ret[c] = "true"
  /\ op[d].kind = "update" /\ ret[d] # "none"
  /\ op[d].id = op[c].id
C36_DeleteWinsOverUpdate ==
  \A c, d \in Callers :
    UpdateAndDelete(c, d) =>
      /\ DOMAIN rows[op[c].id] = {}
      /\ op[c].id \notin rowsSet
      /\ \A k \in DOMAIN index : op[c].id \notin index[k]

\* C37: every entry that getAll, scanRows, findByField and scanByField return
\* carries the non-empty data of a row, also when a delete of the row runs
\* between the enumeration of the ids and the fetch of the row.
C37_NoEmptyEntries ==
  \A c \in Callers :
    op[c].kind \in ListKinds =>
      \A i \in 1..Len(loc[c].out) : DOMAIN loc[c].out[i].data # {}

\* C38: when every score of the sorted index lies within [minScore, maxScore],
\* getRowsBySortedField with that score range reads the same page of the
\* index as the call without a score range, whatever order, limit and offset
\* are given or omitted.
WithoutScoreRange(options) ==
  [options EXCEPT !.minScore = NoOptions.minScore, !.maxScore = NoOptions.maxScore]
RangeCoversAll(options) ==
  /\ options.minScore.found \/ options.maxScore.found
  /\ \A m \in DOMAIN tsorted :
       /\ options.minScore.found => AtLeast(tsorted[m], options.minScore.value)
       /\ options.maxScore.found => AtMost(tsorted[m], options.maxScore.value)
C38_RangePathPagesAsRankPath ==
  \A c \in Callers :
    (op[c].kind = "getRowsBySortedField" /\ RangeCoversAll(op[c].options)) =>
      loc[c].page = SortedPage(tsorted, WithoutScoreRange(op[c].options))

\* the same, for the calls that give a limit or give no offset (or offset 0)
C38_WithLimitOrNoOffset ==
  \A c \in Callers :
    (/\ op[c].kind = "getRowsBySortedField" /\ RangeCoversAll(op[c].options)
     /\ (op[c].options.limit.found \/ ~op[c].options.offset.found
           \/ op[c].options.offset.value = 0)) =>
      loc[c].page = SortedPage(tsorted, WithoutScoreRange(op[c].options))

\* C39: in any interleaving of concurrent createUser calls with the same
\* email at most one call succeeds and at most one row holds that email; a
\* createUser for an email that has a row already fails and inserts nothing.
RowsWithEmail(email) ==
  {id \in Ids : EmailField \in DOMAIN rows[id] /\ rows[id][EmailField] = email}
CreatedUsers(email) ==
  {c \in Callers : /\ op[c].kind = "createUser" /\ op[c].id = email
                   /\ pc[c] = "idle" /\ ret[c] \in Ids}
C39_OneUserPerEmail ==
  \A email \in Emails :
    /\ Cardinality(RowsWithEmail(email)) <= 1
    /\ Quiescent => Cardinality(CreatedUsers(email)) <= 1

\* the part about an email that has a row when createUser is called
C39_ExistingEmailFails ==
  [][\A c \in Callers, email \in Emails :
       (/\ pc[c] = "idle" /\ pc'[c] # "idle" /\ op'[c].kind = "createUser"
        /\ op'[c].id = email /\ RowsWithEmail(email) # {}
        /\ \A id \in RowsWithEmail(email) : id \in FindByFieldIds(EmailField, email))
         => pc'[c] = "cu_fetch"
    ]_vars

\* C40: for dropTable next to concurrent inserts: once every call has
\* returned and the table does not exist, no row hash, no membership entry
\* and no index entry of the table is left; an insert that passed its schema
\* check before the drop leaves no row behind.
NothingLeft ==
  /\ \A id \in Ids : DOMAIN rows[id] = {}
  /\ rowsSet = {}
  /\ \A k \in DOMAIN index : index[k] = {}
C40_DropLeavesNoRow ==
  (Quiescent /\ ~TableExists) => NothingLeft

====
